---- MODULE Spec2Model ----
(***************************************************************************)
(* A model of the InkBack simulation engine: the event loop of             *)
(* run_backtest_with_candles (src/src/backtester.rs), the helpers it       *)
(* calls, and the transaction-cost functions of src/src/slippage_models.rs.*)
(*                                                                         *)
(* Numbers.  An f64 is modelled as an exact rational <<n, d>> in lowest    *)
(* terms with d > 0, or as one of the three non-finite values              *)
(* <<1, 0>> (+inf), <<-1, 0>> (-inf) and <<0, 0>> (NaN).  A finite result  *)
(* whose magnitude exceeds FMax overflows to an infinity of its sign, as   *)
(* an f64 result does beyond f64::MAX.  Rounding, underflow and the sign   *)
(* of zero are not modelled.                                               *)
(*                                                                         *)
(* Options.  Option<T> is the empty tuple <<>> (None) or <<x>> (Some(x)).  *)
(***************************************************************************)
EXTENDS Integers, Sequences, FiniteSets, TLC

\* ------------------------------------------------------------------ bounds
\* Largest finite magnitude of the modelled f64 (stands for f64::MAX).
FMax == 1000000
\* Longest event series given to one run.
MaxCandles == 4

\* ------------------------------------------------------------ f64 numbers
Abs(n) == IF n < 0 THEN -n ELSE n

Sgn(n) == IF n < 0 THEN -1 ELSE IF n > 0 THEN 1 ELSE 0

RECURSIVE Gcd(_, _)
Gcd(a, b) ==
    IF b = 0 THEN a
    ELSE CHOOSE g \in {Gcd(y, r) : <<y, r>> \in {<<b, a % b>>}} : TRUE

PosInf == <<1, 0>>
NegInf == <<-1, 0>>
NaN == <<0, 0>>

\* The f64 nearest to n/d (d > 0): lowest terms, or an infinity on overflow.
LowestTerms(n, d) ==
    IF Abs(n) \div d > FMax \/ (Abs(n) \div d = FMax /\ Abs(n) % d # 0)
    THEN <<Sgn(n), 0>>
    ELSE CHOOSE x \in {<<n \div g, d \div g>> : g \in {Gcd(Abs(n), d)}} : TRUE

Norm(n, d) == CHOOSE x \in {LowestTerms(p[1], p[2]) : p \in {<<n, d>>}} : TRUE

\* The integer n, and the fraction n/d, as f64 literals.
R(n) == Norm(n, 1)
Q(n, d) == Norm(n, d)

is_finite(x) == x[2] # 0
is_nan(x) == x = NaN

FNeg(x) == <<-x[1], x[2]>>

FAdd(x, y) ==
    IF is_nan(x) \/ is_nan(y) THEN NaN
    ELSE IF ~is_finite(x) THEN (IF ~is_finite(y) /\ y # x THEN NaN ELSE x)
    ELSE IF ~is_finite(y) THEN y
    ELSE Norm(x[1] * y[2] + y[1] * x[2], x[2] * y[2])

FSub(x, y) == FAdd(x, FNeg(y))

FMul(x, y) ==
    IF is_nan(x) \/ is_nan(y) THEN NaN
    ELSE IF ~is_finite(x) \/ ~is_finite(y)
         THEN <<Sgn(x[1]) * Sgn(y[1]), 0>>
    ELSE Norm(x[1] * y[1], x[2] * y[2])

FDiv(x, y) ==
    IF is_nan(x) \/ is_nan(y) THEN NaN
    ELSE IF ~is_finite(x)
         THEN (IF ~is_finite(y) THEN NaN
               ELSE <<x[1] * (IF y[1] < 0 THEN -1 ELSE 1), 0>>)
    ELSE IF ~is_finite(y) THEN <<0, 1>>
    ELSE IF y[1] = 0 THEN <<Sgn(x[1]), 0>>
    ELSE Norm(x[1] * y[2] * Sgn(y[1]), x[2] * Abs(y[1]))

\* f64::floor
FFloor(x) == IF is_finite(x) THEN <<x[1] \div x[2], 1>> ELSE x

\* The largest integer r in lo..hi with r * r <= m (lo * lo <= m).
RECURSIVE ISqrtIn(_, _, _)
ISqrtIn(m, lo, hi) ==
    IF lo >= hi THEN lo
    ELSE CHOOSE r \in {IF mid * mid <= m THEN ISqrtIn(m, mid, hi)
                       ELSE ISqrtIn(m, lo, mid - 1) :
                           mid \in {(lo + hi + 1) \div 2}} : TRUE

ISqrt(m) == ISqrtIn(m, 0, 46340)

\* f64::sqrt, and powf(0.5) on the same arguments: NaN below zero, exact
\* when numerator and denominator are squares, else the root rounded down to
\* a multiple of 1/16 (the model's stand-in for rounding to the nearest f64).
FSqrt(x) ==
    IF is_nan(x) THEN NaN
    ELSE IF ~is_finite(x) THEN (IF x[1] > 0 THEN PosInf ELSE NaN)
    ELSE IF x[1] < 0 THEN NaN
    ELSE IF ISqrt(x[1]) * ISqrt(x[1]) = x[1] /\ ISqrt(x[2]) * ISqrt(x[2]) = x[2]
         THEN <<ISqrt(x[1]), ISqrt(x[2])>>
    ELSE Norm(ISqrt((x[1] * 256) \div x[2]), 16)

\* x < y, x <= y, x > y, x >= y on f64: false when either side is NaN.
FLt(x, y) ==
    /\ ~is_nan(x) /\ ~is_nan(y)
    /\ IF is_finite(x) /\ is_finite(y) THEN x[1] * y[2] < y[1] * x[2]
       ELSE IF ~is_finite(x) /\ ~is_finite(y) THEN x[1] < y[1]
       ELSE IF ~is_finite(x) THEN x[1] < 0
       ELSE y[1] > 0
FLe(x, y) == ~is_nan(x) /\ ~is_nan(y) /\ (x = y \/ FLt(x, y))
FGt(x, y) == FLt(y, x)
FGe(x, y) == FLe(y, x)

\* f64::min and f64::max: the other operand when one is NaN.
FMinOf(x, y) ==
    IF is_nan(x) THEN y ELSE IF is_nan(y) THEN x
    ELSE IF FLt(y, x) THEN y ELSE x
FMaxOf(x, y) ==
    IF is_nan(x) THEN y ELSE IF is_nan(y) THEN x
    ELSE IF FLt(x, y) THEN y ELSE x

\* ------------------------------------------------------------------ Option
None == <<>>
Some(x) == <<x>>
is_some(o) == o # None
unwrap(o) == o[1]
unwrap_or(o, dflt) == IF o = None THEN dflt ELSE o[1]

\* ----------------------------------------------------------------- Candle
\* Candle: date, fields (HashMap<String, f64>) and string_fields
\* (HashMap<String, String>), the maps as records over the keys present.
get(candle, key) ==
    IF key \in DOMAIN candle.fields THEN Some(candle.fields[key]) ELSE None

get_string(candle, key) ==
    IF key \in DOMAIN candle.string_fields
    THEN Some(candle.string_fields[key]) ELSE None

\* ------------------------------------------------------- TransactionCosts
\* CommissionModel, SlippageModel and SpreadModel variants as records
\* tagged by kind.
CommissionFixed(fee) == [kind |-> "Fixed", fee |-> fee]
CommissionPerShare(rate) == [kind |-> "PerShare", rate |-> rate]
CommissionPercentage(pct) == [kind |-> "Percentage", pct |-> pct]
CommissionTiered(tiers) == [kind |-> "Tiered", tiers |-> tiers]

SlippageFixed(bps) == [kind |-> "Fixed", bps |-> bps]
SlippageLinear(factor) == [kind |-> "Linear", factor |-> factor]
SlippageSquareRoot(factor) == [kind |-> "SquareRoot", factor |-> factor]
SlippageTickBased(ticks) == [kind |-> "TickBased", ticks |-> ticks]
SlippageMarketImpact(permanent, temporary, liq) ==
    [kind |-> "MarketImpact", permanent |-> permanent,
     temporary |-> temporary, liquidity_factor |-> liq]
SlippageOptions(base, liq, mult) ==
    [kind |-> "OptionsSlippage", base_slippage_bps |-> base,
     liquidity_factor |-> liq, bid_ask_multiplier |-> mult]

SpreadFixed(spread) == [kind |-> "Fixed", spread |-> spread]
SpreadPercentage(pct) == [kind |-> "Percentage", pct |-> pct]
SpreadTimeDependent == [kind |-> "TimeDependent"]
SpreadOptionsBidAsk(min_spread, spread_pct, max_spread_pct) ==
    [kind |-> "OptionsBidAsk", min_spread |-> min_spread,
     spread_pct |-> spread_pct, max_spread_pct |-> max_spread_pct]

\* Mutant of calculate_spread: the options band has no cap.
calculate_spread_Uncapped(costs, price) ==
    LET m == costs.spread IN
    CASE m.kind = "Fixed" -> m.spread
      [] m.kind = "Percentage" -> FMul(FDiv(m.pct, R(100)), price)
      [] m.kind = "TimeDependent" -> FMul(Q(1, 100), price)
      [] m.kind = "OptionsBidAsk" ->
            FMaxOf(FMul(FDiv(m.spread_pct, R(100)), price), m.min_spread)

calculate_spread(costs, price) ==
    LET m == costs.spread IN
    CASE m.kind = "Fixed" -> m.spread
      [] m.kind = "Percentage" -> FMul(FDiv(m.pct, R(100)), price)
      [] m.kind = "TimeDependent" -> FMul(Q(1, 100), price)
      [] m.kind = "OptionsBidAsk" ->
            LET percentage_spread == FMul(FDiv(m.spread_pct, R(100)), price)
                max_spread == FMul(FDiv(m.max_spread_pct, R(100)), price)
            IN FMinOf(FMaxOf(percentage_spread, m.min_spread), max_spread)

\* Mutant of TierRate: a trade value equal to a threshold falls into the
\* next tier.
RECURSIVE TierRate_Strict(_, _, _)
TierRate_Strict(tiers, k, trade_value) ==
    IF k > Len(tiers)
    THEN (IF Len(tiers) = 0 THEN R(0)
          ELSE FMul(tiers[Len(tiers)][2], trade_value))
    ELSE IF FLt(trade_value, tiers[k][1]) THEN FMul(tiers[k][2], trade_value)
    ELSE TierRate_Strict(tiers, k + 1, trade_value)

\* The tier loop of calculate_commission: the first tier whose threshold
\* is >= trade_value, else the last tier's rate, else 0.
RECURSIVE TierRate(_, _, _)
TierRate(tiers, k, trade_value) ==
    IF k > Len(tiers)
    THEN (IF Len(tiers) = 0 THEN R(0)
          ELSE FMul(tiers[Len(tiers)][2], trade_value))
    ELSE IF FLe(trade_value, tiers[k][1]) THEN FMul(tiers[k][2], trade_value)
    ELSE TierRate(tiers, k + 1, trade_value)

calculate_commission(costs, price, size, volume) ==
    LET m == costs.commission IN
    CASE m.kind = "Fixed" -> m.fee
      [] m.kind = "PerShare" -> FMul(m.rate, size)
      [] m.kind = "Percentage" -> FMul(FMul(FDiv(m.pct, R(100)), price), size)
      [] m.kind = "Tiered" -> TierRate(m.tiers, 1, FMul(price, size))

\* The liquidity penalty shared by both OptionsSlippage branches.
LiquidityPenalty(m, participation_rate) ==
    IF FGt(participation_rate, Q(1, 10))
    THEN FMul(m.liquidity_factor, participation_rate) ELSE R(1)

calculate_slippage(costs, price, size, volume, is_entry) ==
    LET m == costs.slippage IN
    CASE m.kind = "Fixed" -> FMul(FMul(FDiv(m.bps, R(10000)), price), size)
      [] m.kind = "Linear" ->
            LET impact == FMul(m.factor, FMinOf(FDiv(size, volume), R(1)))
            IN FMul(FMul(FDiv(impact, R(10000)), price), size)
      [] m.kind = "SquareRoot" ->
            LET impact == FMul(m.factor, FSqrt(FDiv(size, volume)))
            IN FMul(FMul(FDiv(impact, R(10000)), price), size)
      [] m.kind = "TickBased" -> FMul(m.ticks, size)
      [] m.kind = "MarketImpact" ->
            LET participation_rate == FDiv(size, volume)
                perm_impact == FMul(m.permanent, FSqrt(participation_rate))
                temp_impact == FMul(m.temporary, FSqrt(participation_rate))
                liquidity_adj ==
                    FAdd(R(1),
                         FMul(m.liquidity_factor,
                              FSub(R(1), FMinOf(FDiv(volume, R(1000000)),
                                                R(1)))))
            IN FMul(FMul(FDiv(FMul(FAdd(perm_impact, temp_impact),
                                   liquidity_adj), R(10000)), price), size)
      [] m.kind = "OptionsSlippage" ->
            LET participation_rate == FMinOf(FDiv(size, volume), R(1))
                liquidity_penalty == LiquidityPenalty(m, participation_rate)
                base_cost ==
                    FMul(FMul(FDiv(FMul(m.base_slippage_bps, liquidity_penalty),
                                   R(10000)), price), size)
                spread == calculate_spread(costs, price)
                spread_cost == FMul(FMul(m.bid_ask_multiplier, spread), size)
            IN FAdd(base_cost, spread_cost)

calculate_entry_cost(costs, price, size, volume) ==
    LET commission == calculate_commission(costs, price, size, volume)
        slippage == calculate_slippage(costs, price, size, volume, TRUE)
        spread == FDiv(calculate_spread(costs, price), R(2))
    IN FAdd(FAdd(commission, slippage), spread)

calculate_exit_cost(costs, price, size, volume) ==
    LET commission == calculate_commission(costs, price, size, volume)
        slippage == calculate_slippage(costs, price, size, volume, FALSE)
        spread == FDiv(calculate_spread(costs, price), R(2))
    IN FAdd(FAdd(commission, slippage), spread)

\* adjust_fill_price as slippage_models.rs declares it: (order_price, size,
\* is_buy).  The engine's call sites also write avg_volume between size and
\* is_buy; the function has no such parameter and never reads a volume.
adjust_fill_price(costs, order_price, size, is_buy) ==
    LET m == costs.slippage
        slippage_amount ==
            CASE m.kind = "Fixed" -> FMul(FDiv(m.bps, R(10000)), order_price)
              [] m.kind = "Linear" ->
                    LET impact == FMul(m.factor, FMinOf(size, R(1)))
                    IN FMul(FDiv(impact, R(10000)), order_price)
              [] m.kind = "SquareRoot" ->
                    LET impact == FMul(m.factor, FSqrt(size))
                    IN FMul(FDiv(impact, R(10000)), order_price)
              [] m.kind = "TickBased" -> m.ticks
              [] m.kind = "MarketImpact" ->
                    LET impact == FMul(m.temporary, FSqrt(size))
                    IN FMul(FDiv(impact, R(10000)), order_price)
              [] m.kind = "OptionsSlippage" ->
                    LET participation_rate == FMinOf(size, R(1))
                        liquidity_penalty ==
                            LiquidityPenalty(m, participation_rate)
                        bid_ask_spread == calculate_spread(costs, order_price)
                        spread_slippage ==
                            FMul(m.bid_ask_multiplier, bid_ask_spread)
                        base_slippage ==
                            FMul(FDiv(FMul(m.base_slippage_bps,
                                           liquidity_penalty), R(10000)),
                                 order_price)
                    IN FAdd(base_slippage, spread_slippage)
        spread_cost == FDiv(calculate_spread(costs, order_price), R(2))
        total_impact == FAdd(slippage_amount, spread_cost)
    IN IF is_buy THEN FAdd(order_price, total_impact)
       ELSE FSub(order_price, total_impact)

\* ------------------------------------------------------------ the engine
\* Order: order_type and price.  The field "at" is a history tag, the index
\* of the event whose on_candle call returned the order; no modelled code
\* reads it.  The variable last_order is a history variable too: what the
\* latest on_candle call returned.
OrderTypes == {"MarketBuy", "MarketSell", "LimitBuy", "LimitSell"}

\* Position
Neutral == [kind |-> "Neutral"]
Long(entry, size, entry_date) ==
    [kind |-> "Long", entry |-> entry, size |-> size, entry_date |-> entry_date]
Short(entry, size, entry_date) ==
    [kind |-> "Short", entry |-> entry, size |-> size, entry_date |-> entry_date]

\* A symbol is modelled by the two things the engine reads of it: its first
\* two characters and whether it ends in ".v.0" or ".c.0".
get_future_multiplier(future_traded) ==
    CASE future_traded = "NQ" -> R(5)
      [] future_traded = "ES" -> Q(25, 2)
      [] future_traded = "YM" -> R(5)
      [] future_traded = "CL" -> R(10)
      [] future_traded = "GC" -> R(10)
      [] future_traded = "SI" -> R(25)

get_future_from_symbol(sym) ==
    IF sym.root \in {"NQ", "ES", "YM", "CL", "GC", "SI"}
    THEN Some(sym.root) ELSE None

DefaultVolume == 1000000

RECURSIVE SumVolume(_, _)
SumVolume(cs, k) ==
    IF k > Len(cs) THEN R(0)
    ELSE FAdd(unwrap_or(get(cs[k], "volume"),
                        unwrap_or(get(cs[k], "size"), R(0))),
              SumVolume(cs, k + 1))

calculate_average_volume(cs) ==
    IF Len(cs) = 0 THEN R(DefaultVolume)
    ELSE FDiv(SumVolume(cs, 1), R(Len(cs)))

\* should_fill_limit_order with 0.0 as the last resort in place of the
\* order's own price.
should_fill_limit_order_ZeroFallback(order, candle) ==
    LET high == unwrap_or(get(candle, "high"),
                          unwrap_or(get(candle, "price"), R(0)))
        low == unwrap_or(get(candle, "low"),
                         unwrap_or(get(candle, "price"), R(0)))
    IN CASE order.order_type = "LimitBuy" -> FLe(low, order.price)
         [] order.order_type = "LimitSell" -> FGe(high, order.price)
         [] OTHER -> FALSE

should_fill_limit_order(order, candle) ==
    LET high == unwrap_or(get(candle, "high"),
                          unwrap_or(get(candle, "price"), order.price))
        low == unwrap_or(get(candle, "low"),
                         unwrap_or(get(candle, "price"), order.price))
    IN CASE order.order_type = "LimitBuy" -> FLe(low, order.price)
         [] order.order_type = "LimitSell" -> FGe(high, order.price)
         [] OTHER -> FALSE

\* The instrument multiplier chosen in calculate_pnl_with_costs and again in
\* the exit branches of the event loop.
Multiplier(is_options, futures_multiplier) ==
    IF is_options THEN R(100)
    ELSE IF is_some(futures_multiplier) THEN unwrap(futures_multiplier)
    ELSE R(1)

\* Mutant of calculate_pnl_with_costs: a Long's gross PnL has the sign of a
\* Short's.
calculate_pnl_with_costs_ShortSign(pos, exit_price, costs, avg_volume, is_options, futures_multiplier) ==
    IF pos.kind = "Neutral" THEN R(0)
    ELSE LET entry_cost ==
                 calculate_entry_cost(costs, pos.entry, pos.size, avg_volume)
             exit_cost ==
                 calculate_exit_cost(costs, exit_price, pos.size, avg_volume)
             multiplier == Multiplier(is_options, futures_multiplier)
             gross_pnl ==
                 FMul(FMul(FSub(pos.entry, exit_price), pos.size), multiplier)
         IN IF ~is_finite(entry_cost) \/ ~is_finite(exit_cost)
               \/ ~is_finite(gross_pnl)
            THEN R(0)
            ELSE FSub(FSub(gross_pnl, entry_cost), exit_cost)

calculate_pnl_with_costs(pos, exit_price, costs, avg_volume, is_options, futures_multiplier) ==
    IF pos.kind = "Neutral" THEN R(0)
    ELSE LET entry_cost ==
                 calculate_entry_cost(costs, pos.entry, pos.size, avg_volume)
             exit_cost ==
                 calculate_exit_cost(costs, exit_price, pos.size, avg_volume)
             multiplier == Multiplier(is_options, futures_multiplier)
             gross_pnl ==
                 IF pos.kind = "Long"
                 THEN FMul(FMul(FSub(exit_price, pos.entry), pos.size),
                           multiplier)
                 ELSE FMul(FMul(FSub(pos.entry, exit_price), pos.size),
                           multiplier)
         IN IF ~is_finite(entry_cost) \/ ~is_finite(exit_cost)
               \/ ~is_finite(gross_pnl)
            THEN R(0)
            ELSE FSub(FSub(gross_pnl, entry_cost), exit_cost)

\* ---------------------------------------------------------------- inputs
\* The event shapes a series is drawn from: a low bar, a high bar and a
\* tick with a price but no high/low.
BarLow ==
    [open |-> R(2), high |-> R(2), low |-> R(1), close |-> R(2),
     volume |-> R(40)]
BarHigh ==
    [open |-> R(4), high |-> R(5), low |-> R(4), close |-> R(5),
     volume |-> R(40)]
Tick == [price |-> R(3), size |-> R(10)]
CandleShapes == {BarLow, BarHigh, Tick}
\* An event of options data: a tick that also carries a strike price (and,
\* in MkOptionCandles, an instrument class).
OptionTick == [price |-> R(3), size |-> R(10), strike_price |-> R(3)]

\* The series whose k-th event has the k-th shape and date k.
MkCandles(shapes) ==
    [k \in 1..Len(shapes) |->
        [date |-> k, fields |-> shapes[k], string_fields |-> [symbol |-> "SYM"]]]

\* The same for options data: every event has an instrument_class column.
MkOptionCandles(shapes) ==
    [k \in 1..Len(shapes) |->
        [date |-> k, fields |-> shapes[k],
         string_fields |-> [symbol |-> "SYM", instrument_class |-> "C"]]]

RECURSIVE SeqsUpTo(_, _)
SeqsUpTo(S, n) ==
    IF n = 0 THEN {<<>>}
    ELSE LET shorter == SeqsUpTo(S, n - 1)
         IN shorter \cup {Append(q, x) : q \in {r \in shorter : Len(r) = n - 1},
                                         x \in S}

\* Cost models: one with fixed fees, one with fees proportional to size and price, and one
\* whose fixed fee is of the order of the largest finite f64.
CheapCosts ==
    [commission |-> CommissionFixed(R(1)),
     slippage |-> SlippageTickBased(Q(1, 4)),
     spread |-> SpreadFixed(Q(1, 2))]
ProportionalCosts ==
    [commission |-> CommissionPerShare(Q(1, 4)),
     slippage |-> SlippageLinear(R(2500)),
     spread |-> SpreadPercentage(R(50))]
HugeFeeCosts ==
    [commission |-> CommissionFixed(Norm(3 * (FMax \div 5), 1)),
     slippage |-> SlippageTickBased(R(0)),
     spread |-> SpreadFixed(R(0))]

\* The zero-cost model, a model whose fixed fee is large enough for two
\* round trips to overflow the equity, and an options model
\* (OptionsSlippage with OptionsBidAsk).
ZeroCosts ==
    [commission |-> CommissionFixed(R(0)),
     slippage |-> SlippageTickBased(R(0)),
     spread |-> SpreadFixed(R(0))]
LargeFeeCosts ==
    [commission |-> CommissionFixed(Norm(2 * (FMax \div 5), 1)),
     slippage |-> SlippageTickBased(R(0)),
     spread |-> SpreadFixed(R(0))]
OptionCosts ==
    [commission |-> CommissionPerShare(Q(1, 2)),
     slippage |-> SlippageOptions(R(2500), R(2), Q(1, 2)),
     spread |-> SpreadOptionsBidAsk(Q(1, 4), R(50), R(50))]

\* The prices a strategy puts on its orders.
OrderPrices == {R(3)}

\* Run configurations: symbol, cost model, starting equity, exposure, the
\* event shapes of the series (options data or not) and the prices the
\* strategy quotes.
RunConfigs ==
    {[symbol |-> [root |-> "AA", continuous |-> FALSE],
      costs |-> CheapCosts, starting_equity |-> R(100), exposure |-> Q(1, 2),
      shapes |-> CandleShapes, options |-> FALSE, prices |-> OrderPrices],
     [symbol |-> [root |-> "ES", continuous |-> TRUE],
      costs |-> ProportionalCosts, starting_equity |-> R(100),
      exposure |-> R(1),
      shapes |-> CandleShapes, options |-> FALSE, prices |-> OrderPrices],
     [symbol |-> [root |-> "AA", continuous |-> FALSE],
      costs |-> HugeFeeCosts, starting_equity |-> R(100), exposure |-> Q(1, 2),
      shapes |-> CandleShapes, options |-> FALSE, prices |-> OrderPrices],
     [symbol |-> [root |-> "ZZ", continuous |-> TRUE],
      costs |-> ZeroCosts, starting_equity |-> R(100000), exposure |-> Q(1, 2),
      shapes |-> {BarHigh}, options |-> FALSE, prices |-> {R(100), R(110)}],
     [symbol |-> [root |-> "AA", continuous |-> FALSE],
      costs |-> LargeFeeCosts, starting_equity |-> R(100), exposure |-> Q(1, 2),
      shapes |-> {Tick}, options |-> FALSE, prices |-> OrderPrices],
     [symbol |-> [root |-> "ES", continuous |-> TRUE],
      costs |-> OptionCosts, starting_equity |-> R(10000), exposure |-> Q(1, 2),
      shapes |-> {OptionTick}, options |-> TRUE, prices |-> OrderPrices],
     [symbol |-> [root |-> "AA", continuous |-> FALSE],
      costs |-> CheapCosts, starting_equity |-> R(100), exposure |-> Q(1, 2),
      shapes |-> {Tick}, options |-> FALSE, prices |-> {R(3), NaN}]}

\* ----------------------------------------------------------------- state
VARIABLES
    symbol, candles, transaction_costs, starting_equity, exposure,
    order_prices,
    equity, position, prev_candle, trades, equity_curve,
    pending_order, pending_limit_orders,
    idx, pc, result, warnings,
    submitted, tested, fills, last_order,
    parameter_combinations, csv, open_fails, workers, completion,
    sorted_results,
    call, ret,
    params, instance, twin, emitted

\* The state of a sweep (run_parallel_backtest): its parameter sets, the
\* data file and the opens of it that fail, one worker per parameter set,
\* the order the workers delivered their entries in, and the returned list.
sweep ==
    <<parameter_combinations, csv, open_fails, workers, completion,
      sorted_results>>

\* One call of a function of the cost model or of calculate_metrics (its
\* arguments and its return value), and one strategy instance: the
\* StrategyParams it is constructed from, the instance, a second instance
\* constructed from the same parameters when the first is reset, and the
\* orders the two have returned since.
units == <<call, ret, params, instance, twin, emitted>>

vars ==
    <<symbol, candles, transaction_costs, starting_equity, exposure,
      order_prices,
      equity, position, prev_candle, trades, equity_curve,
      pending_order, pending_limit_orders,
      idx, pc, result, warnings,
      submitted, tested, fills, last_order,
      parameter_combinations, csv, open_fails, workers, completion,
      sorted_results,
      call, ret, params, instance, twin, emitted>>

inputs ==
    <<symbol, candles, transaction_costs, starting_equity, exposure,
      order_prices>>

\* Values run_backtest_with_candles computes once, before the loop.
is_options_trading ==
    \E k \in 1..Len(candles) :
        /\ is_some(get_string(candles[k], "instrument_class"))
        /\ is_some(get(candles[k], "strike_price"))

is_futures_trading == symbol.continuous

futures_multiplier ==
    IF is_futures_trading
    THEN (IF is_some(get_future_from_symbol(symbol))
          THEN Some(get_future_multiplier(unwrap(get_future_from_symbol(symbol))))
          ELSE None)
    ELSE None

avg_volume == calculate_average_volume(candles)

Init ==
    /\ \E cfg \in RunConfigs :
          /\ symbol = cfg.symbol
          /\ transaction_costs = cfg.costs
          /\ starting_equity = cfg.starting_equity
          /\ exposure = cfg.exposure
          /\ order_prices = cfg.prices
          /\ candles \in {IF cfg.options THEN MkOptionCandles(q)
                           ELSE MkCandles(q) :
                               q \in SeqsUpTo(cfg.shapes, MaxCandles)}
    /\ equity = starting_equity
    /\ position = Neutral
    /\ prev_candle = None
    /\ trades = <<>>
    /\ equity_curve = <<starting_equity>>
    /\ pending_order = None
    /\ pending_limit_orders = <<>>
    /\ idx = 1
    /\ pc = "limit"
    /\ result = None
    /\ warnings = 0
    /\ submitted = {}
    /\ tested = {}
    /\ fills = <<>>
    /\ last_order = None
    /\ call = None
    /\ ret = None
    /\ params = None
    /\ instance = None
    /\ twin = None
    /\ emitted = <<>>
    /\ parameter_combinations = <<>>
    /\ csv = [records |-> <<>>]
    /\ open_fails = {}
    /\ workers = <<>>
    /\ completion = <<>>
    /\ sorted_results = None

\* --------------------------------------------------------------- actions
\* Position sizing at an entry fill.
EntrySize(eq, expo, order_price, is_options) ==
    LET capital == FMul(eq, expo)
    IN IF is_options
       THEN FFloor(FDiv(capital, FMul(order_price, R(100))))
       ELSE FFloor(FDiv(capital, order_price))

\* The position an entry order opens on candle.
OpenPosition(order, candle, is_buy) ==
    LET size == EntrySize(equity, exposure, order.price, is_options_trading)
        adjusted_entry_price ==
            adjust_fill_price(transaction_costs, order.price, size, is_buy)
    IN IF is_buy THEN Long(adjusted_entry_price, size, candle.date)
       ELSE Short(adjusted_entry_price, size, candle.date)

\* pending_limit_orders.retain(..): the orders kept, and those moved to
\* filled_limit_orders, both in submission order.
RetainedLimitOrders(pending, candle) ==
    SelectSeq(pending, LAMBDA o : ~should_fill_limit_order(o, candle))

FilledLimitOrders(pending, candle) ==
    SelectSeq(pending, LAMBDA o : should_fill_limit_order(o, candle))

\* Mutant of PositionAfterLimitFill: the Neutral check is missing.
PositionAfterLimitFill_AnyLedger(pos, filled_limit_orders, candle) ==
    IF filled_limit_orders # <<>>
    THEN LET order == Head(filled_limit_orders)
         IN IF order.order_type = "LimitBuy"
            THEN Long(order.price, R(1), candle.date)
            ELSE Short(order.price, R(1), candle.date)
    ELSE pos

\* The position after the limit-order block: the first filled order opens a
\* position when the ledger is Neutral.
PositionAfterLimitFill(pos, filled_limit_orders, candle) ==
    IF filled_limit_orders # <<>> /\ pos.kind = "Neutral"
    THEN LET order == Head(filled_limit_orders)
         IN CASE order.order_type = "LimitBuy" ->
                    OpenPosition(order, candle, TRUE)
              [] order.order_type = "LimitSell" ->
                    OpenPosition(order, candle, FALSE)
              [] OTHER -> pos
    ELSE pos

\* Loop body, first block: pending limit orders against the current event.
LimitPhase ==
    /\ pc = "limit"
    /\ idx <= Len(candles)
    /\ LET candle == candles[idx]
           filled_limit_orders == FilledLimitOrders(pending_limit_orders, candle)
       IN /\ pending_limit_orders' =
                 RetainedLimitOrders(pending_limit_orders, candle)
          /\ position' =
                 PositionAfterLimitFill(position, filled_limit_orders, candle)
          /\ tested' = tested \cup
                 {<<pending_limit_orders[k].at, idx>> :
                      k \in 1..Len(pending_limit_orders)}
          /\ fills' =
                 IF position' # position
                 THEN Append(fills, [at |-> Head(filled_limit_orders).at,
                                     order_type |->
                                         Head(filled_limit_orders).order_type,
                                     idx |-> idx, via |-> "limit"])
                 ELSE fills
    /\ pc' = "market"
    /\ UNCHANGED sweep
    /\ UNCHANGED units
    /\ UNCHANGED <<inputs, equity, prev_candle, trades, equity_curve,
                   pending_order, idx, result, warnings, submitted,
                   last_order>>

\* Mutant of PositionAfterMarketFill: the Neutral check is missing.
PositionAfterMarketFill_AnyLedger(pos, order, candle) ==
    CASE order.order_type = "MarketBuy" -> OpenPosition(order, candle, TRUE)
      [] order.order_type = "MarketSell" -> OpenPosition(order, candle, FALSE)
      [] OTHER -> pos

\* The position after the pending-market-order block.
PositionAfterMarketFill(pos, order, candle) ==
    IF pos.kind = "Neutral"
    THEN CASE order.order_type = "MarketBuy" ->
                  OpenPosition(order, candle, TRUE)
           [] order.order_type = "MarketSell" ->
                  OpenPosition(order, candle, FALSE)
           [] OTHER -> pos
    ELSE pos

\* Mutant of MarketPhase: a pending order that is not filled stays pending.
MarketPhase_KeepsUnfilled ==
    /\ pc = "market"
    /\ IF is_some(pending_order)
       THEN LET order == unwrap(pending_order)
            IN /\ position' =
                      PositionAfterMarketFill(position, order, candles[idx])
               /\ warnings' =
                      IF position.kind = "Neutral" THEN warnings
                      ELSE warnings + 1
               /\ fills' =
                      IF position' # position
                      THEN Append(fills, [at |-> order.at,
                                          order_type |-> order.order_type,
                                          idx |-> idx, via |-> "market"])
                      ELSE fills
       ELSE UNCHANGED <<position, warnings, fills>>
    /\ pending_order' =
           IF position.kind = "Neutral" THEN None ELSE pending_order
    /\ pc' = "strategy"
    /\ UNCHANGED sweep
    /\ UNCHANGED units
    /\ UNCHANGED <<inputs, equity, prev_candle, trades, equity_curve,
                   pending_limit_orders, idx, result, submitted, tested,
                   last_order>>

\* Loop body, second block: pending_order.take() and its fill or warning.
MarketPhase ==
    /\ pc = "market"
    /\ IF is_some(pending_order)
       THEN LET order == unwrap(pending_order)
            IN /\ position' =
                      PositionAfterMarketFill(position, order, candles[idx])
               /\ warnings' =
                      IF position.kind = "Neutral" THEN warnings
                      ELSE warnings + 1
               /\ fills' =
                      IF position' # position
                      THEN Append(fills, [at |-> order.at,
                                          order_type |-> order.order_type,
                                          idx |-> idx, via |-> "market"])
                      ELSE fills
       ELSE UNCHANGED <<position, warnings, fills>>
    /\ pending_order' = None
    /\ pc' = "strategy"
    /\ UNCHANGED sweep
    /\ UNCHANGED units
    /\ UNCHANGED <<inputs, equity, prev_candle, trades, equity_curve,
                   pending_limit_orders, idx, result, submitted, tested,
                   last_order>>

\* What strategy.on_candle may return on event i: nothing, or an order of
\* any type at one of the prices the run's strategy quotes.
StrategyOutputs(i) ==
    {None} \cup {Some([order_type |-> t, price |-> p, at |-> i]) :
                     t \in OrderTypes, p \in order_prices}

\* Mutant of IsExitOrder: any sell closes a Long and any buy closes a Short.
IsExitOrder_AnySameSide(pos, order) ==
    \/ pos.kind = "Long" /\ order.order_type \in {"MarketSell", "LimitSell"}
    \/ pos.kind = "Short" /\ order.order_type \in {"MarketBuy", "LimitBuy"}

\* The order is the explicit exit of the open position.
IsExitOrder(pos, order) ==
    \/ pos.kind = "Long" /\ order.order_type = "MarketSell"
    \/ pos.kind = "Short" /\ order.order_type = "MarketBuy"

\* gross_pnl as the exit branches compute it.
GrossPnl(pos, exit_price, multiplier) ==
    IF pos.kind = "Long"
    THEN FMul(FMul(FSub(exit_price, pos.entry), pos.size), multiplier)
    ELSE FMul(FMul(FSub(pos.entry, exit_price), pos.size), multiplier)

\* pnl_pct of the Trade an exit records.
PnlPct(pos, exit_price) ==
    IF pos.kind = "Long"
    THEN FMul(FSub(FDiv(exit_price, pos.entry), R(1)), R(100))
    ELSE FMul(FSub(FDiv(pos.entry, exit_price), R(1)), R(100))

\* Mutant of MkTrade: the exit is dated with the entry's event.
MkTrade_DatedAtEntry(pos, candle, exit_price, pnl) ==
    [entry_date |-> pos.entry_date,
     exit_date |-> pos.entry_date,
     entry_price |-> pos.entry,
     exit_price |-> exit_price,
     size |-> pos.size,
     pnl |-> pnl,
     pnl_pct |-> PnlPct(pos, exit_price),
     trade_type |-> pos.kind,
     exit_reason |-> "Strategy",
     transaction_costs |->
         FSub(GrossPnl(pos, exit_price,
                       Multiplier(is_options_trading, futures_multiplier)),
              pnl)]

\* Mutant of MkTrade: the entry and exit dates are exchanged.
MkTrade_DatesSwapped(pos, candle, exit_price, pnl) ==
    [entry_date |-> candle.date,
     exit_date |-> pos.entry_date,
     entry_price |-> pos.entry,
     exit_price |-> exit_price,
     size |-> pos.size,
     pnl |-> pnl,
     pnl_pct |-> PnlPct(pos, exit_price),
     trade_type |-> pos.kind,
     exit_reason |-> "Strategy",
     transaction_costs |->
         FSub(GrossPnl(pos, exit_price,
                       Multiplier(is_options_trading, futures_multiplier)),
              pnl)]

\* The Trade pushed by an exit of pos at exit_price with realized pnl.
MkTrade(pos, candle, exit_price, pnl) ==
    [entry_date |-> pos.entry_date,
     exit_date |-> candle.date,
     entry_price |-> pos.entry,
     exit_price |-> exit_price,
     size |-> pos.size,
     pnl |-> pnl,
     pnl_pct |-> PnlPct(pos, exit_price),
     trade_type |-> pos.kind,
     exit_reason |-> "Strategy",
     transaction_costs |->
         FSub(GrossPnl(pos, exit_price,
                       Multiplier(is_options_trading, futures_multiplier)),
              pnl)]

\* The price an exit order fills at: a sell for a Long, a buy for a Short.
ExitPrice(pos, order) ==
    adjust_fill_price(transaction_costs, order.price, pos.size,
                      pos.kind = "Short")

\* The realized PnL of closing pos at exit_price.
ExitPnl(pos, exit_price) ==
    calculate_pnl_with_costs(pos, exit_price, transaction_costs, avg_volume,
                             is_options_trading, futures_multiplier)

\* An exit whose PnL is not finite leaves the loop body by `continue`.
ExitSkipsRestOfIteration(pnl) == ~is_finite(pnl)

\* Mutant of EndOfIteration: the equity is pushed without the finite check.
EndOfIteration_PushesAnyEquity(eq, candle) ==
    /\ equity_curve' = Append(equity_curve, eq)
    /\ equity' = eq
    /\ prev_candle' = Some(candle)

\* The tail of the loop body: the equity pushed on the curve (the last curve
\* value when eq is not finite), and prev_candle.
EndOfIteration(eq, candle) ==
    /\ IF is_finite(eq)
       THEN /\ equity_curve' = Append(equity_curve, eq)
            /\ equity' = eq
       ELSE /\ equity_curve' =
                   Append(equity_curve, equity_curve[Len(equity_curve)])
            /\ equity' = equity_curve[Len(equity_curve)]
    /\ prev_candle' = Some(candle)

\* Mutant of ExitBranch: the skip path also closes the position.
ExitBranch_ClosesOnSkip(order, candle, exit_price, pnl) ==
    IF ~is_finite(pnl)
    THEN /\ position' = Neutral
         /\ UNCHANGED <<equity, trades, equity_curve, prev_candle,
                        pending_order, pending_limit_orders, submitted, fills>>
    ELSE /\ trades' = Append(trades, MkTrade(position, candle, exit_price, pnl))
         /\ position' = Neutral
         /\ fills' = Append(fills, [at |-> order.at,
                                    order_type |-> order.order_type,
                                    idx |-> idx, via |-> "exit"])
         /\ EndOfIteration(FAdd(equity, pnl), candle)
         /\ UNCHANGED <<pending_order, pending_limit_orders, submitted>>

\* An exit branch of the loop body, for the exit price and PnL computed:
\* `continue` on a non-finite PnL, else the trade is recorded, the ledger
\* goes Neutral and the iteration runs to its end.
ExitBranch(order, candle, exit_price, pnl) ==
    IF ExitSkipsRestOfIteration(pnl)
    THEN UNCHANGED <<equity, position, trades, equity_curve, prev_candle,
                     pending_order, pending_limit_orders, submitted, fills>>
    ELSE /\ trades' = Append(trades, MkTrade(position, candle, exit_price, pnl))
         /\ position' = Neutral
         /\ fills' = Append(fills, [at |-> order.at,
                                    order_type |-> order.order_type,
                                    idx |-> idx, via |-> "exit"])
         /\ EndOfIteration(FAdd(equity, pnl), candle)
         /\ UNCHANGED <<pending_order, pending_limit_orders, submitted>>

\* Mutant of QueueBranch: a market order is filled on the event it is
\* emitted on instead of being queued.
QueueBranch_MarketFillsNow(order, candle) ==
    /\ IF order.order_type \in {"MarketBuy", "MarketSell"}
       THEN /\ position' =
                   OpenPosition(order, candle, order.order_type = "MarketBuy")
            /\ fills' = Append(fills, [at |-> order.at,
                                       order_type |-> order.order_type,
                                       idx |-> idx, via |-> "market"])
            /\ UNCHANGED <<pending_order, pending_limit_orders>>
       ELSE /\ pending_limit_orders' = Append(pending_limit_orders, order)
            /\ UNCHANGED <<pending_order, position, fills>>
    /\ submitted' = submitted \cup {order}
    /\ EndOfIteration(equity, candle)
    /\ UNCHANGED trades

\* Mutant of QueueBranch: a limit order is tested against the event it is
\* emitted on, and fills there when the event meets its price.
QueueBranch_LimitTestedNow(order, candle) ==
    /\ IF order.order_type \in {"MarketBuy", "MarketSell"}
       THEN /\ pending_order' = Some(order)
            /\ UNCHANGED <<pending_limit_orders, position, fills>>
       ELSE IF should_fill_limit_order(order, candle)
       THEN /\ position' =
                   OpenPosition(order, candle, order.order_type = "LimitBuy")
            /\ fills' = Append(fills, [at |-> order.at,
                                       order_type |-> order.order_type,
                                       idx |-> idx, via |-> "limit"])
            /\ UNCHANGED <<pending_order, pending_limit_orders>>
       ELSE /\ pending_limit_orders' = Append(pending_limit_orders, order)
            /\ UNCHANGED <<pending_order, position, fills>>
    /\ submitted' = submitted \cup {order}
    /\ EndOfIteration(equity, candle)
    /\ UNCHANGED trades

\* The Neutral branch: a market order goes to pending_order, a limit order
\* to the end of pending_limit_orders.
QueueBranch(order, candle) ==
    /\ IF order.order_type \in {"MarketBuy", "MarketSell"}
       THEN /\ pending_order' = Some(order)
            /\ UNCHANGED pending_limit_orders
       ELSE /\ pending_limit_orders' = Append(pending_limit_orders, order)
            /\ UNCHANGED pending_order
    /\ submitted' = submitted \cup {order}
    /\ EndOfIteration(equity, candle)
    /\ UNCHANGED <<position, trades, fills>>

\* Loop body, third block: the strategy is consulted and its order handled,
\* then the equity curve is extended.
StrategyPhase ==
    /\ pc = "strategy"
    /\ \E out \in StrategyOutputs(idx) :
         /\ last_order' = out
         /\ IF is_some(out) /\ IsExitOrder(position, unwrap(out))
            THEN \E exit_price \in {ExitPrice(position, unwrap(out))} :
                   ExitBranch(unwrap(out), candles[idx], exit_price,
                              ExitPnl(position, exit_price))
            ELSE IF is_some(out) /\ position.kind = "Neutral"
            THEN QueueBranch(unwrap(out), candles[idx])
            ELSE /\ EndOfIteration(equity, candles[idx])
                 /\ UNCHANGED <<position, trades, pending_order,
                                pending_limit_orders, submitted, fills>>
    /\ idx' = idx + 1
    /\ pc' = "limit"
    /\ UNCHANGED sweep
    /\ UNCHANGED units
    /\ UNCHANGED <<inputs, result, warnings, tested>>

\* One iteration of the drawdown loop of calculate_metrics on point.
DrawdownStep(acc, point) ==
    LET peak == IF FGt(point, acc.peak) THEN point ELSE acc.peak
        dd == FSub(peak, point)
        dd_pct == FMul(FDiv(dd, peak), R(100))
    IN [peak |-> peak,
        max_dd |-> IF FGt(dd, acc.max_dd) THEN dd ELSE acc.max_dd,
        max_dd_pct |->
            IF FGt(dd_pct, acc.max_dd_pct) THEN dd_pct ELSE acc.max_dd_pct]

\* Mutant of DrawdownLoop: the drawdown is measured against the previous
\* point instead of the running peak.
RECURSIVE DrawdownLoop_AgainstPreviousPoint(_, _, _)
DrawdownLoop_AgainstPreviousPoint(curve, k, acc) ==
    IF k > Len(curve) THEN acc
    ELSE CHOOSE r \in {DrawdownLoop_AgainstPreviousPoint(curve, k + 1, a) :
                           a \in {DrawdownStep([acc EXCEPT !.peak =
                                       IF k = 1 THEN acc.peak
                                       ELSE curve[k - 1]], curve[k])}} : TRUE

\* for point in &equity_curve { .. }, from the k-th point on.
RECURSIVE DrawdownLoop(_, _, _)
DrawdownLoop(curve, k, acc) ==
    IF k > Len(curve) THEN acc
    ELSE CHOOSE r \in {DrawdownLoop(curve, k + 1, a) :
                           a \in {DrawdownStep(acc, curve[k])}} : TRUE

\* iter().sum::<f64>() of the values seq[k..] added to acc, left to right.
RECURSIVE FSum(_, _, _)
FSum(seq, k, acc) ==
    IF k > Len(seq) THEN acc
    ELSE CHOOSE r \in {FSum(seq, k + 1, a) : a \in {FAdd(acc, seq[k])}} : TRUE

\* iter().map(f).fold(0.0, f64::max) and fold(0.0, f64::min).
RECURSIVE FoldMax(_, _, _)
FoldMax(seq, k, acc) ==
    IF k > Len(seq) THEN acc
    ELSE CHOOSE r \in {FoldMax(seq, k + 1, a) : a \in {FMaxOf(acc, seq[k])}} : TRUE

RECURSIVE FoldMin(_, _, _)
FoldMin(seq, k, acc) ==
    IF k > Len(seq) THEN acc
    ELSE CHOOSE r \in {FoldMin(seq, k + 1, a) : a \in {FMinOf(acc, seq[k])}} : TRUE

\* The pnl of every trade, of the winning trades and (as absolute values) of
\* the losing trades, in trade order.
PnlOf(trade_list) == [k \in 1..Len(trade_list) |-> trade_list[k].pnl]
WinningPnl(trade_list) ==
    SelectSeq(PnlOf(trade_list), LAMBDA p : FGt(p, R(0)))
LosingPnl(trade_list) ==
    LET losses == SelectSeq(PnlOf(trade_list), LAMBDA p : FLt(p, R(0)))
    IN [k \in 1..Len(losses) |-> FNeg(losses[k])]

\* The value profit_factor takes when there is profit and no loss.
ProfitFactorCap == 1000

ProfitFactor(gross_profit, gross_loss) ==
    IF gross_loss = R(0)
    THEN (IF FGt(gross_profit, R(0)) THEN R(ProfitFactorCap) ELSE R(0))
    ELSE FDiv(gross_profit, gross_loss)

\* Mutant of WinRate: losing trades are left out of the denominator.
WinRate_OverDecided(total_trades, winning_trades, losing_trades) ==
    IF winning_trades + losing_trades = 0 THEN R(0)
    ELSE FMul(FDiv(R(winning_trades), R(winning_trades + losing_trades)),
              R(100))

WinRate(total_trades, winning_trades, losing_trades) ==
    IF total_trades = 0 THEN R(0)
    ELSE FMul(FDiv(R(winning_trades), R(total_trades)), R(100))

\* Mutant of TradeStatistics: every trade that is not a winner counts as a
\* losing trade.
TradeStatistics_ZeroPnlLoses(trade_list, gross_profit, gross_loss, wins, losses) ==
    [win_rate |-> WinRate(Len(trade_list), wins, losses),
     profit_factor |-> ProfitFactor(gross_profit, gross_loss),
     winning_trades |-> wins,
     losing_trades |-> Len(trade_list) - wins,
     avg_win |-> IF wins = 0 THEN R(0) ELSE FDiv(gross_profit, R(wins)),
     avg_loss |-> IF Len(trade_list) - wins = 0 THEN R(0)
                  ELSE FDiv(gross_loss, R(Len(trade_list) - wins)),
     largest_win |-> FoldMax(PnlOf(trade_list), 1, R(0)),
     largest_loss |-> FoldMin(PnlOf(trade_list), 1, R(0)),
     total_transaction_costs |->
         FSum([k \in 1..Len(trade_list) |->
                   trade_list[k].transaction_costs], 1, R(0))]

\* The statistics calculate_metrics derives from the trade list.
TradeStatistics(trade_list, gross_profit, gross_loss, wins, losses) ==
    [win_rate |-> WinRate(Len(trade_list), wins, losses),
     profit_factor |-> ProfitFactor(gross_profit, gross_loss),
     winning_trades |-> wins,
     losing_trades |-> losses,
     avg_win |-> IF wins = 0 THEN R(0) ELSE FDiv(gross_profit, R(wins)),
     avg_loss |-> IF losses = 0 THEN R(0) ELSE FDiv(gross_loss, R(losses)),
     largest_win |-> FoldMax(PnlOf(trade_list), 1, R(0)),
     largest_loss |-> FoldMin(PnlOf(trade_list), 1, R(0)),
     total_transaction_costs |->
         FSum([k \in 1..Len(trade_list) |->
                   trade_list[k].transaction_costs], 1, R(0))]

\* BacktestResult::calculate_metrics.
calculate_metrics(start_eq, ending_equity, curve, trade_list) ==
    LET dd == DrawdownLoop(curve, 1, [peak |-> start_eq, max_dd |-> R(0),
                                      max_dd_pct |-> R(0)])
        stats == TradeStatistics(trade_list,
                                 FSum(WinningPnl(trade_list), 1, R(0)),
                                 FSum(LosingPnl(trade_list), 1, R(0)),
                                 Len(WinningPnl(trade_list)),
                                 Len(LosingPnl(trade_list)))
    IN [starting_equity |-> start_eq,
        ending_equity |-> ending_equity,
        total_return |-> FSub(ending_equity, start_eq),
        total_return_pct |->
            IF start_eq = R(0) THEN R(0)
            ELSE FMul(FSub(FDiv(ending_equity, start_eq), R(1)), R(100)),
        max_drawdown |-> dd.max_dd,
        max_drawdown_pct |-> dd.max_dd_pct,
        total_trades |-> Len(trade_list),
        equity_curve |-> curve,
        trades |-> trade_list]
       @@ stats

\* Mutant of Finish: a position still open after the last event is closed
\* at its entry price and recorded as a trade.
Finish_ClosesOpenPosition ==
    /\ pc = "limit"
    /\ idx > Len(candles)
    /\ trades' =
           IF position.kind # "Neutral" /\ candles # <<>>
           THEN Append(trades, MkTrade(position, candles[Len(candles)],
                                       position.entry, R(0)))
           ELSE trades
    /\ position' = Neutral
    /\ result' = Some(calculate_metrics(starting_equity, equity, equity_curve,
                                       trades'))
    /\ pc' = "done"
    /\ UNCHANGED sweep
    /\ UNCHANGED units
    /\ UNCHANGED <<inputs, equity, prev_candle,
                   equity_curve, pending_order, pending_limit_orders, idx,
                   warnings, submitted, tested, fills, last_order>>

\* After the last event: Ok(BacktestResult::calculate_metrics(..)).
Finish ==
    /\ pc = "limit"
    /\ idx > Len(candles)
    /\ result' = Some(calculate_metrics(starting_equity, equity, equity_curve,
                                       trades))
    /\ pc' = "done"
    /\ UNCHANGED sweep
    /\ UNCHANGED units
    /\ UNCHANGED <<inputs, equity, position, prev_candle, trades,
                   equity_curve, pending_order, pending_limit_orders, idx,
                   warnings, submitted, tested, fills, last_order>>

Next == LimitPhase \/ MarketPhase \/ StrategyPhase \/ Finish

Spec == Init /\ [][Next]_vars

\* The loop is a sequential program: it keeps taking its next step.
FairSpec == Spec /\ WF_vars(Next)

\* ------------------------------------------------- the run as a function
\* The same loop as a function of its arguments, for the callers that run
\* it to completion: run_backtest_with_schema and the workers of
\* run_parallel_backtest.  The ledger is a record of the loop's locals.

\* Result<T>
Ok(v) == [ok |-> TRUE, value |-> v]
Err == [ok |-> FALSE]

\* A deterministic strategy instance: the orders it returns call after
\* call, and how many calls it has answered.
on_candle(strategy) ==
    IF strategy.calls + 1 <= Len(strategy.script)
    THEN strategy.script[strategy.calls + 1] ELSE None

AfterCall(strategy) == [strategy EXCEPT !.calls = @ + 1]

\* Values computed once before the loop, from the series and the symbol.
IsOptionsData(cs) ==
    \E k \in 1..Len(cs) :
        /\ is_some(get_string(cs[k], "instrument_class"))
        /\ is_some(get(cs[k], "strike_price"))

FuturesMultiplierOf(sym) ==
    IF sym.continuous /\ is_some(get_future_from_symbol(sym))
    THEN Some(get_future_multiplier(unwrap(get_future_from_symbol(sym))))
    ELSE None

LoopEnv(sym, cs, costs, expo) ==
    [costs |-> costs, exposure |-> expo,
     is_options |-> IsOptionsData(cs),
     futures_multiplier |-> FuturesMultiplierOf(sym),
     avg_volume |-> calculate_average_volume(cs)]

NewLedger(start_eq) ==
    [equity |-> start_eq, position |-> Neutral, prev_candle |-> None,
     trades |-> <<>>, equity_curve |-> <<start_eq>>,
     pending_order |-> None, pending_limit_orders |-> <<>>]

\* The position an entry order opens, sized on the ledger's equity.
EntryPosition(env, eq, order, candle, is_buy) ==
    IF is_buy
    THEN Long(adjust_fill_price(env.costs, order.price,
                                EntrySize(eq, env.exposure, order.price,
                                          env.is_options), TRUE),
              EntrySize(eq, env.exposure, order.price, env.is_options),
              candle.date)
    ELSE Short(adjust_fill_price(env.costs, order.price,
                                 EntrySize(eq, env.exposure, order.price,
                                           env.is_options), FALSE),
               EntrySize(eq, env.exposure, order.price, env.is_options),
               candle.date)

\* First block of the loop body: pending limit orders.
LimitBlock(env, l, candle) ==
    [l EXCEPT
       !.pending_limit_orders = RetainedLimitOrders(@, candle),
       !.position =
           IF FilledLimitOrders(l.pending_limit_orders, candle) # <<>>
              /\ l.position.kind = "Neutral"
           THEN EntryPosition(
                    env, l.equity,
                    Head(FilledLimitOrders(l.pending_limit_orders, candle)),
                    candle,
                    Head(FilledLimitOrders(l.pending_limit_orders,
                                           candle)).order_type = "LimitBuy")
           ELSE @]

\* Second block: the pending market order is taken, and fills if Neutral.
MarketBlock(env, l, candle) ==
    IF is_some(l.pending_order)
    THEN [l EXCEPT
            !.pending_order = None,
            !.position =
                IF l.position.kind = "Neutral"
                THEN EntryPosition(
                         env, l.equity, unwrap(l.pending_order), candle,
                         unwrap(l.pending_order).order_type = "MarketBuy")
                ELSE @]
    ELSE l

\* The tail of the loop body.
PushEquity(l, candle) ==
    [l EXCEPT
       !.equity_curve =
           Append(@, IF is_finite(l.equity) THEN l.equity ELSE @[Len(@)]),
       !.equity =
           IF is_finite(@) THEN @
           ELSE l.equity_curve[Len(l.equity_curve)],
       !.prev_candle = Some(candle)]

\* The Trade an exit records.
ExitTrade(env, pos, candle, exit_price, pnl) ==
    [entry_date |-> pos.entry_date,
     exit_date |-> candle.date,
     entry_price |-> pos.entry,
     exit_price |-> exit_price,
     size |-> pos.size,
     pnl |-> pnl,
     pnl_pct |-> PnlPct(pos, exit_price),
     trade_type |-> pos.kind,
     exit_reason |-> "Strategy",
     transaction_costs |->
         FSub(GrossPnl(pos, exit_price,
                       Multiplier(env.is_options, env.futures_multiplier)),
              pnl)]

\* An exit at exit_price realizing pnl: `continue` when it is not finite.
ExitBlock(env, l, candle, exit_price, pnl) ==
    IF ~is_finite(pnl) THEN l
    ELSE PushEquity(
             [l EXCEPT
                !.equity = FAdd(@, pnl),
                !.trades = Append(@, ExitTrade(env, l.position, candle,
                                               exit_price, pnl)),
                !.position = Neutral],
             candle)

\* Third block: the strategy's order is handled, then the tail runs.
StrategyBlock(env, l, candle, out) ==
    IF is_some(out) /\ IsExitOrder(l.position, unwrap(out))
    THEN ExitBlock(
             env, l, candle,
             adjust_fill_price(env.costs, unwrap(out).price, l.position.size,
                               l.position.kind = "Short"),
             calculate_pnl_with_costs(
                 l.position,
                 adjust_fill_price(env.costs, unwrap(out).price,
                                   l.position.size, l.position.kind = "Short"),
                 env.costs, env.avg_volume, env.is_options,
                 env.futures_multiplier))
    ELSE IF is_some(out) /\ l.position.kind = "Neutral"
    THEN PushEquity(
             IF unwrap(out).order_type \in {"MarketBuy", "MarketSell"}
             THEN [l EXCEPT !.pending_order = out]
             ELSE [l EXCEPT !.pending_limit_orders = Append(@, unwrap(out))],
             candle)
    ELSE PushEquity(l, candle)

\* The loop over the series from its k-th event on.
RECURSIVE RunLoop(_, _, _, _, _)
RunLoop(env, cs, k, l, strategy) ==
    IF k > Len(cs) THEN [ledger |-> l, strategy |-> strategy]
    ELSE RunLoop(env, cs, k + 1,
                 StrategyBlock(env,
                               MarketBlock(env, LimitBlock(env, l, cs[k]),
                                           cs[k]),
                               cs[k], on_candle(strategy)),
                 AfterCall(strategy))

\* The result of a run and the strategy instance as the run leaves it.
RunOutcome(start_eq, run) ==
    [result |-> calculate_metrics(start_eq, run.ledger.equity,
                                  run.ledger.equity_curve, run.ledger.trades),
     strategy |-> run.strategy]

run_backtest_with_candles(sym, cs, strategy, costs, start_eq, expo) ==
    Ok(RunOutcome(start_eq,
                  RunLoop(LoopEnv(sym, cs, costs, expo), cs, 1,
                          NewLedger(start_eq), strategy)))

\* -------------------------------------------------------- the data file
\* val_str.parse::<f64>() on the cell texts the modelled files contain.
ParseF64(text) ==
    CASE text = "1" -> Some(R(1))
      [] text = "2" -> Some(R(2))
      [] text = "4" -> Some(R(4))
      [] text = "5" -> Some(R(5))
      [] text = "40" -> Some(R(40))
      [] OTHER -> None

\* A record the CSV reader yields (date column and the other cells by
\* header), and one it fails on.
CsvRecord(date, open, high, low, close, volume) ==
    [ok |-> TRUE, date |-> date,
     cells |-> [open |-> open, high |-> high, low |-> low, close |-> close,
                volume |-> volume, symbol |-> "SYM"]]
MalformedRecord == [ok |-> FALSE]

\* The Candle of a record: the cells that parse as f64 go to fields, the
\* others to string_fields.
CandleOfRecord(rec) ==
    [date |-> rec.date,
     fields |->
         [h \in {c \in DOMAIN rec.cells : is_some(ParseF64(rec.cells[c]))} |->
             unwrap(ParseF64(rec.cells[h]))],
     string_fields |->
         [h \in {c \in DOMAIN rec.cells : ~is_some(ParseF64(rec.cells[c]))} |->
             rec.cells[h]]]

\* Mutant of csv_to_candles: a record the reader fails on is skipped.
csv_to_candles_SkipsMalformed(path) ==
    IF ~path.readable THEN Err
    ELSE Ok([k \in 1..Len(SelectSeq(path.records, LAMBDA r : r.ok)) |->
                CandleOfRecord(SelectSeq(path.records, LAMBDA r : r.ok)[k])])

\* The record loop of csv_to_candles: the first failing record ends it.
RECURSIVE ReadRecords(_, _, _)
ReadRecords(records, k, acc) ==
    IF k > Len(records) THEN Ok(acc)
    ELSE IF ~records[k].ok THEN Err
    ELSE ReadRecords(records, k + 1, Append(acc, CandleOfRecord(records[k])))

\* GenericCsvHandler::csv_to_candles.  A path is modelled by what opening it
\* gives: whether the open succeeds, and the file's records.
csv_to_candles(path) ==
    IF ~path.readable THEN Err ELSE ReadRecords(path.records, 1, <<>>)

\* The rest of run_backtest_with_schema once csv_to_candles has returned:
\* `?` passes an error on, else the run is made on the candles.
RunOnCandles(read, sym, strategy, costs, start_eq, expo) ==
    IF ~read.ok THEN Err
    ELSE run_backtest_with_candles(sym, read.value, strategy, costs, start_eq,
                                   expo)

run_backtest_with_schema(path, sym, strategy, costs, start_eq, expo) ==
    RunOnCandles(csv_to_candles(path), sym, strategy, costs, start_eq, expo)

run_individual_backtest(path, sym, strategy, start_eq, expo, costs) ==
    run_backtest_with_schema(path, sym, strategy, costs, start_eq, expo)

\* ------------------------------------------------------------ the sweep
\* Most parameter sets in an enumerated sweep.
MaxParams == 3

\* A parameter set: its values, whether the strategy constructor accepts
\* them, and the orders the strategy built from them returns call by call.
MkOrder(order_type, price) == [order_type |-> order_type, price |-> price]
InvalidParams ==
    [params |-> [lookback_periods |-> R(5)], valid |-> FALSE, script |-> <<>>]
IdleParams ==
    [params |-> [lookback_periods |-> R(1)], valid |-> TRUE, script |-> <<>>]
WinnerParams ==
    [params |-> [lookback_periods |-> R(2)], valid |-> TRUE,
     script |-> <<Some(MkOrder("MarketBuy", R(2))),
                  Some(MkOrder("MarketSell", R(4)))>>]
LoserParams ==
    [params |-> [lookback_periods |-> R(4)], valid |-> TRUE,
     script |-> <<Some(MkOrder("MarketBuy", R(4))),
                  Some(MkOrder("MarketSell", R(2)))>>]
ParamSpace == {InvalidParams, IdleParams, WinnerParams, LoserParams}

\* A sweep of 8 parameter sets of which 2 fail construction.
ScenarioParams ==
    <<WinnerParams, InvalidParams, IdleParams, LoserParams,
      IdleParams, InvalidParams, WinnerParams, LoserParams>>

\* The files: three well-formed records (one with a volume that is not a
\* number), and the same file with a record the reader fails on.
GoodFile ==
    [records |-> <<CsvRecord(1, "2", "2", "1", "2", "40"),
                   CsvRecord(2, "4", "5", "4", "5", "40"),
                   CsvRecord(3, "2", "2", "1", "2", "n/a")>>]
BadFile ==
    [records |-> <<CsvRecord(1, "2", "2", "1", "2", "40"),
                   MalformedRecord,
                   CsvRecord(3, "2", "2", "1", "2", "n/a")>>]
SweepFiles == {GoodFile, BadFile}

\* The sweeps enumerated: every list of up to MaxParams parameter sets with
\* every set of failing opens, and the scenario of 8.
SweepInputs ==
    UNION {{[params |-> q, open_fails |-> f] : f \in SUBSET (1..Len(q))} :
               q \in SeqsUpTo(ParamSpace, MaxParams)}
    \cup {[params |-> ScenarioParams, open_fails |-> {}]}

\* The variables of the event loop, which a sweep does not use.
engine ==
    <<candles, order_prices, equity, position, prev_candle, trades,
      equity_curve, pending_order, pending_limit_orders, idx, pc, result,
      warnings, submitted, tested, fills, last_order>>

SweepInit ==
    /\ symbol = [root |-> "AA", continuous |-> FALSE]
    /\ transaction_costs = CheapCosts
    /\ starting_equity = R(100)
    /\ exposure = Q(1, 2)
    /\ csv \in SweepFiles
    /\ \E input \in SweepInputs :
          /\ parameter_combinations = input.params
          /\ open_fails = input.open_fails
    /\ workers = [i \in 1..Len(parameter_combinations) |->
                     [pc |-> "construct", strategy |-> None, result |-> None,
                      entry |-> None]]
    /\ completion = <<>>
    /\ sorted_results = None
    /\ candles = <<>>
    /\ order_prices = {}
    /\ equity = starting_equity
    /\ position = Neutral
    /\ prev_candle = None
    /\ trades = <<>>
    /\ equity_curve = <<starting_equity>>
    /\ pending_order = None
    /\ pending_limit_orders = <<>>
    /\ idx = 1
    /\ pc = "sweep"
    /\ result = None
    /\ warnings = 0
    /\ submitted = {}
    /\ tested = {}
    /\ fills = <<>>
    /\ last_order = None
    /\ call = None
    /\ ret = None
    /\ params = None
    /\ instance = None
    /\ twin = None
    /\ emitted = <<>>

\* What worker i gets when it opens the data file.
PathOf(i) == [readable |-> i \notin open_fails, records |-> csv.records]

\* Mutant of strategy_constructor: no parameter set is rejected.
strategy_constructor_NeverFails(p) == Ok([script |-> p.script, calls |-> 0])

\* Mutant of strategy_constructor: one instance serves every worker, so a
\* worker starts from the calls the instance has already answered.
strategy_constructor_SharedInstance(p) ==
    IF ~p.valid THEN Err
    ELSE IF \E j \in 1..Len(workers) :
                is_some(workers[j].strategy) /\ unwrap(workers[j].strategy).calls > 0
    THEN Ok([script |-> p.script,
             calls |-> unwrap(workers[
                 CHOOSE j \in 1..Len(workers) :
                     /\ is_some(workers[j].strategy)
                     /\ unwrap(workers[j].strategy).calls > 0].strategy).calls])
    ELSE Ok([script |-> p.script, calls |-> 0])

\* strategy_constructor(params): a fresh instance, or an error.
strategy_constructor(p) ==
    IF p.valid THEN Ok([script |-> p.script, calls |-> 0]) ELSE Err

\* Worker i is finished without an entry (filter_map drops it).
Dropped(i) ==
    /\ workers' = [workers EXCEPT ![i].pc = "done"]
    /\ UNCHANGED completion

\* The closure's first statement: strategy_constructor(params).ok()?
ConstructStrategy(i) ==
    /\ workers[i].pc = "construct"
    /\ IF strategy_constructor(parameter_combinations[i]).ok
       THEN /\ workers' =
                   [workers EXCEPT
                      ![i].pc = "run",
                      ![i].strategy =
                          Some(strategy_constructor(
                                   parameter_combinations[i]).value)]
            /\ UNCHANGED completion
       ELSE Dropped(i)
    /\ UNCHANGED <<parameter_combinations, csv, open_fails, sorted_results>>
    /\ UNCHANGED <<symbol, transaction_costs, starting_equity, exposure>>
    /\ UNCHANGED engine
    /\ UNCHANGED units

\* The closure's second statement: run_individual_backtest(..).ok()?
RunBacktest(i) ==
    /\ workers[i].pc = "run"
    /\ \E run \in {run_individual_backtest(
                       PathOf(i), symbol, unwrap(workers[i].strategy),
                       starting_equity, exposure, transaction_costs)} :
          IF run.ok
          THEN /\ workers' =
                      [workers EXCEPT
                         ![i].pc = "label",
                         ![i].result = Some(run.value.result),
                         ![i].strategy = Some(run.value.strategy)]
               /\ UNCHANGED completion
          ELSE Dropped(i)
    /\ UNCHANGED <<parameter_combinations, csv, open_fails, sorted_results>>
    /\ UNCHANGED <<symbol, transaction_costs, starting_equity, exposure>>
    /\ UNCHANGED engine
    /\ UNCHANGED units

\* The entry of a run: label, result and the curve with its non-finite
\* values replaced.  The label is modelled by what it is built from, the
\* 1-based index and the parameter values.
ResultEntry(i, p, res, start_eq) ==
    [label |-> [strategy |-> i, params |-> p.params],
     result |-> res,
     finite_curve |->
         [k \in 1..Len(res.equity_curve) |->
             IF is_finite(res.equity_curve[k]) THEN res.equity_curve[k]
             ELSE start_eq]]

\* The rest of the closure: the finiteness check, the label, the entry.
LabelResult(i) ==
    /\ workers[i].pc = "label"
    /\ IF \E k \in 1..Len(unwrap(workers[i].result).equity_curve) :
              ~is_finite(unwrap(workers[i].result).equity_curve[k])
       THEN Dropped(i)
       ELSE /\ workers' =
                   [workers EXCEPT
                      ![i].pc = "done",
                      ![i].entry =
                          Some(ResultEntry(i, parameter_combinations[i],
                                           unwrap(workers[i].result),
                                           starting_equity))]
            /\ completion' = Append(completion, i)
    /\ UNCHANGED <<parameter_combinations, csv, open_fails, sorted_results>>
    /\ UNCHANGED <<symbol, transaction_costs, starting_equity, exposure>>
    /\ UNCHANGED engine
    /\ UNCHANGED units

\* Mutant of CollectResults: the entries in the order they were delivered.
RECURSIVE CollectResults_CompletionOrder(_, _)
CollectResults_CompletionOrder(ws, k) ==
    IF k > Len(completion) THEN <<>>
    ELSE (IF is_some(ws[completion[k]].entry)
          THEN <<unwrap(ws[completion[k]].entry)>> ELSE <<>>)
         \o CollectResults_CompletionOrder(ws, k + 1)

\* par_iter().enumerate().filter_map(..).collect(): the entries of the
\* workers that produced one, in the order of the parameter list.
RECURSIVE CollectResults(_, _)
CollectResults(ws, k) ==
    IF k > Len(ws) THEN <<>>
    ELSE (IF is_some(ws[k].entry) THEN <<unwrap(ws[k].entry)>> ELSE <<>>)
         \o CollectResults(ws, k + 1)

\* sort_by(|a, b| b.1.total_return_pct.partial_cmp(&a.1.total_return_pct)
\* .unwrap_or(Equal)): a stable sort, here by insertion.  x goes before the
\* first entry it compares Less with, that is, whose return is smaller.
RECURSIVE InsertByReturn(_, _, _)
InsertByReturn(sorted, x, k) ==
    IF k > Len(sorted) THEN Append(sorted, x)
    ELSE IF FGt(x.result.total_return_pct, sorted[k].result.total_return_pct)
    THEN SubSeq(sorted, 1, k - 1) \o <<x>> \o SubSeq(sorted, k, Len(sorted))
    ELSE InsertByReturn(sorted, x, k + 1)

RECURSIVE SortByReturn(_)
SortByReturn(entries) ==
    IF entries = <<>> THEN <<>>
    ELSE InsertByReturn(SortByReturn(SubSeq(entries, 1, Len(entries) - 1)),
                        entries[Len(entries)], 1)

\* After every worker has finished: the sort, and Some(sorted_results).
SortResults ==
    /\ sorted_results = None
    /\ pc = "sweep"
    /\ \A i \in 1..Len(workers) : workers[i].pc = "done"
    /\ sorted_results' = Some(SortByReturn(CollectResults(workers, 1)))
    /\ UNCHANGED <<parameter_combinations, csv, open_fails, workers,
                   completion>>
    /\ UNCHANGED <<symbol, transaction_costs, starting_equity, exposure>>
    /\ UNCHANGED engine
    /\ UNCHANGED units

\* The workers run in parallel: any of them may take its next step.
SweepNext ==
    \/ \E i \in 1..Len(workers) : ConstructStrategy(i)
    \/ \E i \in 1..Len(workers) : RunBacktest(i)
    \/ \E i \in 1..Len(workers) : LabelResult(i)
    \/ SortResults

SweepSpec == SweepInit /\ [][SweepNext]_vars

\* ------------------------------------------------ calculate_metrics alone
\* Longest trade list, and longest curve after its first point, given to one
\* call of calculate_metrics.
MaxTrades == 3

\* No run and no sweep is in progress.
NoRun ==
    /\ symbol = [root |-> "AA", continuous |-> FALSE]
    /\ transaction_costs = CheapCosts
    /\ starting_equity = R(100)
    /\ exposure = Q(1, 2)
    /\ candles = <<>>
    /\ order_prices = {}
    /\ equity = starting_equity
    /\ position = Neutral
    /\ prev_candle = None
    /\ trades = <<>>
    /\ equity_curve = <<starting_equity>>
    /\ pending_order = None
    /\ pending_limit_orders = <<>>
    /\ idx = 1
    /\ pc = "call"
    /\ result = None
    /\ warnings = 0
    /\ submitted = {}
    /\ tested = {}
    /\ fills = <<>>
    /\ last_order = None
    /\ parameter_combinations = <<>>
    /\ csv = [records |-> <<>>]
    /\ open_fails = {}
    /\ workers = <<>>
    /\ completion = <<>>
    /\ sorted_results = None

\* The k-th Trade of a list given to calculate_metrics, which reads its pnl
\* and its transaction_costs.
TradeWithPnl(pnl, k) ==
    [entry_date |-> "d0", exit_date |-> "d1", entry_price |-> R(1),
     exit_price |-> R(1), size |-> R(1), pnl |-> pnl, pnl_pct |-> R(0),
     trade_type |-> "Long", exit_reason |-> "Strategy",
     transaction_costs |-> Q(k, 2)]

PnlValues == {R(-4), Q(-1, 2), R(0), R(3), R(FMax)}
EquityValues == {R(-50), R(0), R(50), R(100), R(200)}

\* The curve and the trade list are read by separate parts of
\* calculate_metrics: long curves come with no trades, long trade lists with
\* a curve of at most two points.
MetricsCall(start_eq, tail, pnls) ==
    [fn |-> "calculate_metrics",
     starting_equity |-> start_eq,
     ending_equity |-> IF tail = <<>> THEN start_eq ELSE tail[Len(tail)],
     equity_curve |-> <<start_eq>> \o tail,
     trades |-> [k \in 1..Len(pnls) |-> TradeWithPnl(pnls[k], k)]]

MetricsInputs ==
    {MetricsCall(start_eq, tail, <<>>) :
         start_eq \in {R(0), R(100)},
         tail \in SeqsUpTo(EquityValues, MaxTrades)}
    \cup
    {MetricsCall(start_eq, tail, pnls) :
         start_eq \in {R(0), R(100)},
         tail \in SeqsUpTo(EquityValues, 1),
         pnls \in SeqsUpTo(PnlValues, MaxTrades)}

MetricsInit ==
    /\ NoRun
    /\ call \in {Some(c) : c \in MetricsInputs}
    /\ ret = None
    /\ params = None
    /\ instance = None
    /\ twin = None
    /\ emitted = <<>>

CallCalculateMetrics ==
    /\ pc = "call"
    /\ is_some(call) /\ unwrap(call).fn = "calculate_metrics"
    /\ ret = None
    /\ ret' = Some(calculate_metrics(unwrap(call).starting_equity,
                                    unwrap(call).ending_equity,
                                    unwrap(call).equity_curve,
                                    unwrap(call).trades))
    /\ UNCHANGED <<call, params, instance, twin, emitted>>
    /\ UNCHANGED <<symbol, transaction_costs, starting_equity, exposure>>
    /\ UNCHANGED engine
    /\ UNCHANGED sweep

MetricsNext == CallCalculateMetrics

MetricsSpec == MetricsInit /\ [][MetricsNext]_vars

\* ------------------------------------------------ buy-and-hold benchmark
MaxEvents == 3

\* The schemas without price data.
NoPriceSchemas == {"Status", "Definition", "Statistics"}

\* The field the benchmark reads of every event.
BenchmarkKey(schema, custom_schema) ==
    IF is_some(custom_schema)
    THEN CASE unwrap(custom_schema) = "FootPrint" -> "close"
           [] unwrap(custom_schema) = "CombinedOptionsUnderlying" ->
                  "underlying_ask"
    ELSE CASE schema \in {"Ohlcv1S", "Ohlcv1M", "Ohlcv1H", "Ohlcv1D",
                          "OhlcvEod"} -> "close"
           [] schema \in {"Mbo", "Trades"} -> "price"
           [] schema \in {"Mbp1", "Tbbo", "Cbbo", "Cbbo1S", "Cbbo1M", "Tcbbo",
                          "Bbo1S", "Bbo1M"} -> "ask_price"
           [] schema = "Mbp10" -> "level_0_ask_price"
           [] schema = "Imbalance" -> "ref_price"

\* The benchmark's curve with one more value, computed from the first event.
BenchmarkEquityCurve_FromFirstEvent(cs, key, entry_price, size, multiplier, start_eq) ==
    <<start_eq>> \o
    [k \in 1..Len(cs) |->
        FAdd(FMul(FMul(FSub(unwrap(get(cs[k], key)), entry_price), size),
                  multiplier),
             start_eq)]

\* vec![starting_equity] followed by one value for each event after the
\* first.
BenchmarkEquityCurve(cs, key, entry_price, size, multiplier, start_eq) ==
    [k \in 1..Len(cs) |->
        IF k = 1 THEN start_eq
        ELSE FAdd(FMul(FMul(FSub(unwrap(get(cs[k], key)), entry_price), size),
                       multiplier),
                  start_eq)]

\* candles_read is what csv_to_candles returned: Err, or Ok of the events.
calculate_benchmark_with_schema(candles_read, sym, schema, custom_schema, start_eq, expo) ==
    IF schema \in NoPriceSchemas THEN Err
    ELSE IF ~candles_read.ok THEN Err
    ELSE IF Len(candles_read.value) = 0 THEN Err
    ELSE
      LET cs == candles_read.value
          key == BenchmarkKey(schema, custom_schema)
      IN IF \E k \in 1..Len(cs) : get(cs[k], key) = None THEN Err
         ELSE
           LET first_close == unwrap(get(cs[1], key))
               last_close == unwrap(get(cs[Len(cs)], key))
               size == FDiv(FMul(start_eq, expo), first_close)
               multiplier == unwrap_or(FuturesMultiplierOf(sym), R(1))
               curve ==
                   BenchmarkEquityCurve(cs, key, first_close, size,
                                        multiplier, start_eq)
               pnl == FMul(FMul(FSub(last_close, first_close), size),
                           multiplier)
               trade ==
                   [entry_date |-> cs[1].date,
                    exit_date |-> cs[Len(cs)].date,
                    entry_price |-> first_close,
                    exit_price |-> last_close,
                    size |-> size,
                    pnl |-> pnl,
                    pnl_pct |->
                        FMul(FSub(FDiv(last_close, first_close), R(1)),
                             R(100)),
                    trade_type |-> "Benchmark",
                    exit_reason |-> "EndOfPeriod",
                    transaction_costs |-> R(0)]
           IN Ok(calculate_metrics(start_eq, curve[Len(curve)],
                                   curve, <<trade>>))

\* ------------------------------------------------- the cost model alone
\* One variant of each model per constructor, with non-negative parameters.
CommissionModels ==
    {CommissionFixed(R(1)), CommissionPerShare(Q(1, 2)),
     CommissionPercentage(R(1)),
     CommissionTiered(<<<<R(8), Q(1, 4)>>, <<R(100), Q(1, 8)>>>>),
     CommissionTiered(<<>>)}
SlippageModels ==
    {SlippageFixed(R(2)), SlippageLinear(R(4)), SlippageSquareRoot(R(4)),
     SlippageTickBased(Q(1, 4)), SlippageMarketImpact(R(1), R(2), Q(1, 2)),
     SlippageOptions(R(10), R(2), Q(1, 2))}
SpreadModels ==
    {SpreadFixed(Q(1, 4)), SpreadPercentage(R(1)), SpreadTimeDependent,
     SpreadOptionsBidAsk(R(2), R(2), R(50)),
     SpreadOptionsBidAsk(R(0), R(2), R(1))}

\* Prices, sizes and available volumes, zero included.
CallPrices == {R(0), R(2), R(50), R(1000)}
CallSizes == {R(0), R(4), R(50)}
\* adjust_fill_price compares the size itself with 1 and with 0.1.
FillSizes == CallSizes \cup {Q(1, 16), Q(1, 2)}
CallVolumes == {R(0), R(4), R(40)}
\* The market-impact model compares the volume with 1,000,000.
VolumesFor(slippage) ==
    IF slippage.kind = "MarketImpact"
    THEN {R(0), R(500000), R(1000000)} ELSE CallVolumes

CostsOf(commission, slippage, spread) ==
    [commission |-> commission, slippage |-> slippage, spread |-> spread]

\* Events for should_fill_limit_order: with high and low, with one of them,
\* with price only, and with neither a range nor a price.
FillEvents ==
    {[date |-> 1, fields |-> f, string_fields |-> <<>>] :
        f \in {[high |-> R(4), low |-> R(2), close |-> R(3)],
               [high |-> R(2), price |-> R(3)],
               [low |-> R(4), price |-> R(3)],
               [high |-> R(4)],
               [low |-> R(2)],
               [price |-> R(3), size |-> R(10)],
               [volume |-> R(10)],
               [bid_price |-> R(2), ask_price |-> R(4)]}}

FillOrders ==
    {MkOrder(t, p) : t \in OrderTypes, p \in {R(1), R(3), R(5), NaN}}

\* Datasets for the benchmark: up to MaxEvents events, each with one of the
\* price fields, dated by their position.
BenchmarkFields ==
    {[close |-> R(2)], [close |-> R(3), underlying_ask |-> R(2)],
     [close |-> R(0)], [price |-> R(2), size |-> R(1)],
     [ask_price |-> R(3)]}

BenchmarkDatasets ==
    {[k \in 1..Len(fs) |->
         [date |-> k, fields |-> fs[k], string_fields |-> <<>>]] :
        fs \in SeqsUpTo(BenchmarkFields, MaxEvents)}

BenchmarkSchemas ==
    {"Statistics", "Ohlcv1D", "Trades", "Mbp1", "Imbalance"}

BenchmarkInputs ==
    {[fn |-> "calculate_benchmark_with_schema", csv |-> r, symbol |-> run[1],
      schema |-> schema, custom_schema |-> custom,
      starting_equity |-> R(100), exposure |-> run[2]] :
        r \in {Err} \cup {Ok(cs) : cs \in BenchmarkDatasets},
        run \in {<<[root |-> "AA", continuous |-> FALSE], Q(1, 2)>>,
                 <<[root |-> "ES", continuous |-> TRUE], R(1)>>},
        schema \in BenchmarkSchemas,
        custom \in {None, Some("FootPrint"),
                    Some("CombinedOptionsUnderlying")}}

CostInputs ==
    {[fn |-> "should_fill_limit_order", order |-> o, candle |-> e] :
        o \in FillOrders, e \in FillEvents}
    \cup
    {[fn |-> "adjust_fill_price", costs |-> CostsOf(CommissionFixed(R(0)), s, sp),
      price |-> p, size |-> z, is_buy |-> b] :
         s \in SlippageModels, sp \in SpreadModels, p \in CallPrices,
         z \in FillSizes, b \in BOOLEAN}
    \cup
    UNION {{[fn |-> f, costs |-> CostsOf(c, s, sp), price |-> p, size |-> z,
             volume |-> v] :
                f \in {"calculate_entry_cost", "calculate_exit_cost"},
                c \in CommissionModels, sp \in SpreadModels,
                p \in CallPrices, z \in CallSizes, v \in VolumesFor(s)} :
              s \in SlippageModels}
    \cup
    {[fn |-> "calculate_commission",
      costs |-> CostsOf(c, SlippageFixed(R(0)), SpreadFixed(R(0))),
      price |-> p, size |-> z, volume |-> v] :
         c \in CommissionModels, p \in CallPrices, z \in CallSizes,
         v \in CallVolumes}
    \cup
    {[fn |-> "calculate_spread",
      costs |-> CostsOf(CommissionFixed(R(0)), SlippageFixed(R(0)), sp),
      price |-> p] :
         sp \in SpreadModels, p \in CallPrices}
    \cup
    {[fn |-> "position_size", equity |-> eq, exposure |-> x, price |-> p,
      is_options |-> o] :
         eq \in {R(100), R(10000)}, x \in {Q(1, 2), R(1)}, p \in CallPrices,
         o \in BOOLEAN}

CostInit ==
    /\ NoRun
    /\ call \in {Some(c) : c \in CostInputs}
    /\ ret = None
    /\ params = None
    /\ instance = None
    /\ twin = None
    /\ emitted = <<>>

\* The frame of one call: it returns value.
Returns(fn, value) ==
    /\ pc = "call"
    /\ is_some(call) /\ unwrap(call).fn = fn
    /\ ret = None
    /\ ret' = Some(value)
    /\ UNCHANGED <<call, params, instance, twin, emitted>>
    /\ UNCHANGED <<symbol, transaction_costs, starting_equity, exposure>>
    /\ UNCHANGED engine
    /\ UNCHANGED sweep

CallAdjustFillPrice ==
    /\ is_some(call) /\ unwrap(call).fn = "adjust_fill_price"
    /\ Returns("adjust_fill_price",
               adjust_fill_price(unwrap(call).costs, unwrap(call).price,
                                 unwrap(call).size, unwrap(call).is_buy))

CallEntryCost ==
    /\ is_some(call) /\ unwrap(call).fn = "calculate_entry_cost"
    /\ Returns("calculate_entry_cost",
               calculate_entry_cost(unwrap(call).costs, unwrap(call).price,
                                    unwrap(call).size, unwrap(call).volume))

CallExitCost ==
    /\ is_some(call) /\ unwrap(call).fn = "calculate_exit_cost"
    /\ Returns("calculate_exit_cost",
               calculate_exit_cost(unwrap(call).costs, unwrap(call).price,
                                   unwrap(call).size, unwrap(call).volume))

CallCommission ==
    /\ is_some(call) /\ unwrap(call).fn = "calculate_commission"
    /\ Returns("calculate_commission",
               calculate_commission(unwrap(call).costs, unwrap(call).price,
                                    unwrap(call).size, unwrap(call).volume))

CallSpread ==
    /\ is_some(call) /\ unwrap(call).fn = "calculate_spread"
    /\ Returns("calculate_spread",
               calculate_spread(unwrap(call).costs, unwrap(call).price))

\* The size an entry fill computes from equity, exposure and the order's
\* price.
CallPositionSize ==
    /\ is_some(call) /\ unwrap(call).fn = "position_size"
    /\ Returns("position_size",
               EntrySize(unwrap(call).equity, unwrap(call).exposure,
                         unwrap(call).price, unwrap(call).is_options))

CallShouldFillLimitOrder ==
    /\ is_some(call) /\ unwrap(call).fn = "should_fill_limit_order"
    /\ Returns("should_fill_limit_order",
               should_fill_limit_order(unwrap(call).order, unwrap(call).candle))

CostNext ==
    \/ CallShouldFillLimitOrder
    \/ CallAdjustFillPrice
    \/ CallEntryCost
    \/ CallExitCost
    \/ CallCommission
    \/ CallSpread
    \/ CallPositionSize

CostSpec == CostInit /\ [][CostNext]_vars

\* ------------------------------------------------- the benchmark alone
BenchmarkInit ==
    /\ NoRun
    /\ call \in {Some(c) : c \in BenchmarkInputs}
    /\ ret = None
    /\ params = None
    /\ instance = None
    /\ twin = None
    /\ emitted = <<>>

CallBenchmark ==
    /\ is_some(call) /\ unwrap(call).fn = "calculate_benchmark_with_schema"
    /\ Returns("calculate_benchmark_with_schema",
               calculate_benchmark_with_schema(
                   unwrap(call).csv, unwrap(call).symbol, unwrap(call).schema,
                   unwrap(call).custom_schema, unwrap(call).starting_equity,
                   unwrap(call).exposure))

BenchmarkNext == CallBenchmark

BenchmarkSpec == BenchmarkInit /\ [][BenchmarkNext]_vars

\* --------------------------------------------------- strategy instances
\* StrategyParams::get: the value stored under a key, if any.
StrategyParams_get(p, key) ==
    IF key \in DOMAIN p THEN Some(p[key]) ELSE None

\* The result of casting +inf to an unsigned integer type (its largest
\* value): a count above every finite number of the model.
UnsignedMax == 2 * FMax

\* `x as usize`, `x as u64`, `x as u32`: the fraction is dropped, NaN and
\* negative numbers give 0 and +inf gives the largest value of the type.
AsUnsigned(x) ==
    IF is_nan(x) THEN 0
    ELSE IF x = PosInf THEN UnsignedMax
    ELSE IF x[1] < 0 THEN 0
    ELSE x[1] \div x[2]

\* MovingAverageCrossStrategy (examples/equities): Err when a window key is
\* missing or the short window is not below the long one.
MovingAverageCrossStrategy_new_AnyOrder(p) ==
    LET short == StrategyParams_get(p, "short_ma_period")
        long == StrategyParams_get(p, "long_ma_period")
    IN IF short = None THEN Err
       ELSE IF long = None THEN Err
       ELSE Ok([short_ma_period |-> AsUnsigned(unwrap(short)),
                long_ma_period |-> AsUnsigned(unwrap(long)),
                volume_threshold |->
                    unwrap_or(StrategyParams_get(p, "volume_threshold"),
                              R(0)),
                profit_target |->
                    FDiv(unwrap_or(StrategyParams_get(p, "profit_target"),
                                   R(0)), R(100)),
                stop_loss |->
                    FDiv(unwrap_or(StrategyParams_get(p, "stop_loss"),
                                   R(0)), R(100)),
                short_ma_history |-> <<>>,
                long_ma_history |-> <<>>,
                volume_history |-> <<>>,
                position_state |-> "Flat",
                entry_price |-> R(0),
                entry_time |-> "",
                short_ma |-> R(0),
                long_ma |-> R(0),
                prev_short_ma |-> R(0),
                prev_long_ma |-> R(0)])

MovingAverageCrossStrategy_new(p) ==
    LET short == StrategyParams_get(p, "short_ma_period")
        long == StrategyParams_get(p, "long_ma_period")
    IN IF short = None THEN Err
       ELSE IF long = None THEN Err
       ELSE IF AsUnsigned(unwrap(short)) >= AsUnsigned(unwrap(long)) THEN Err
       ELSE Ok([short_ma_period |-> AsUnsigned(unwrap(short)),
                long_ma_period |-> AsUnsigned(unwrap(long)),
                volume_threshold |->
                    unwrap_or(StrategyParams_get(p, "volume_threshold"),
                              R(0)),
                profit_target |->
                    FDiv(unwrap_or(StrategyParams_get(p, "profit_target"),
                                   R(0)), R(100)),
                stop_loss |->
                    FDiv(unwrap_or(StrategyParams_get(p, "stop_loss"),
                                   R(0)), R(100)),
                short_ma_history |-> <<>>,
                long_ma_history |-> <<>>,
                volume_history |-> <<>>,
                position_state |-> "Flat",
                entry_price |-> R(0),
                entry_time |-> "",
                short_ma |-> R(0),
                long_ma |-> R(0),
                prev_short_ma |-> R(0),
                prev_long_ma |-> R(0)])

\* reset leaving the position state as it was.
MovingAverageCrossStrategy_reset_KeepsPosition(s) ==
    [s EXCEPT !.short_ma_history = <<>>,
              !.long_ma_history = <<>>,
              !.volume_history = <<>>,
              !.entry_price = R(0),
              !.entry_time = "",
              !.short_ma = R(0),
              !.long_ma = R(0),
              !.prev_short_ma = R(0),
              !.prev_long_ma = R(0)]

MovingAverageCrossStrategy_reset(s) ==
    [s EXCEPT !.short_ma_history = <<>>,
              !.long_ma_history = <<>>,
              !.volume_history = <<>>,
              !.position_state = "Flat",
              !.entry_price = R(0),
              !.entry_time = "",
              !.short_ma = R(0),
              !.long_ma = R(0),
              !.prev_short_ma = R(0),
              !.prev_long_ma = R(0)]

calculate_sma(history) ==
    IF history = <<>> THEN R(0)
    ELSE FDiv(FSum(history, 1, R(0)), R(Len(history)))

\* push_back, then pop_front when the window is exceeded.
PushWindow(history, x, period) ==
    LET pushed == Append(history, x)
    IN IF Len(pushed) > period THEN Tail(pushed) ELSE pushed

update_moving_averages(s, price) ==
    LET short_h == PushWindow(s.short_ma_history, price, s.short_ma_period)
        long_h == PushWindow(s.long_ma_history, price, s.long_ma_period)
    IN [s EXCEPT !.prev_short_ma = s.short_ma,
                 !.prev_long_ma = s.long_ma,
                 !.short_ma_history = short_h,
                 !.long_ma_history = long_h,
                 !.short_ma = IF Len(short_h) = s.short_ma_period
                              THEN calculate_sma(short_h) ELSE s.short_ma,
                 !.long_ma = IF Len(long_h) = s.long_ma_period
                             THEN calculate_sma(long_h) ELSE s.long_ma]

check_crossover_signal(s) ==
    IF \/ Len(s.short_ma_history) < s.short_ma_period
       \/ Len(s.long_ma_history) < s.long_ma_period
       \/ s.prev_short_ma = R(0)
       \/ s.prev_long_ma = R(0)
    THEN None
    ELSE IF FLe(s.prev_short_ma, s.prev_long_ma) /\ FGt(s.short_ma, s.long_ma)
    THEN Some("Buy")
    ELSE IF FGe(s.prev_short_ma, s.prev_long_ma) /\ FLt(s.short_ma, s.long_ma)
    THEN Some("Sell")
    ELSE None

\* The sum of the last n entries of a list of integers.
RECURSIVE SumLast(_, _)
SumLast(seq, n) ==
    IF n = 0 \/ seq = <<>> THEN 0
    ELSE seq[Len(seq)] + SumLast(SubSeq(seq, 1, Len(seq) - 1), n - 1)

check_volume_condition(s, current_volume) ==
    IF FLe(s.volume_threshold, R(0)) THEN TRUE
    ELSE IF Len(s.volume_history) < 20 THEN TRUE
    ELSE FGe(R(current_volume),
             FMul(FDiv(R(SumLast(s.volume_history, 20)), R(20)),
                  s.volume_threshold))

MovingAverage_should_exit_position(s, current_price) ==
    IF s.position_state = "Flat" \/ s.entry_price = R(0) THEN FALSE
    ELSE LET pnl_pct ==
                 IF s.position_state = "Long"
                 THEN FDiv(FSub(current_price, s.entry_price), s.entry_price)
                 ELSE FDiv(FSub(s.entry_price, current_price), s.entry_price)
         IN \/ FGt(s.profit_target, R(0)) /\ FGe(pnl_pct, s.profit_target)
            \/ FGt(s.stop_loss, R(0)) /\ FLe(pnl_pct, FNeg(s.stop_loss))

get_trading_price(candle) ==
    LET bid == get(candle, "bid")
        ask == get(candle, "ask")
    IN IF /\ is_some(bid) /\ is_some(ask)
          /\ FGt(unwrap(bid), R(0)) /\ FGt(unwrap(ask), R(0))
          /\ FGt(unwrap(ask), unwrap(bid))
       THEN FDiv(FAdd(unwrap(bid), unwrap(ask)), R(2))
       ELSE unwrap_or(get(candle, "close"),
                      unwrap_or(get(candle, "price"), R(0)))

\* on_candle: the order returned and the instance afterwards.
MovingAverageCrossStrategy_on_candle(s, candle) ==
    LET current_price == get_trading_price(candle)
        volume == AsUnsigned(unwrap_or(get(candle, "volume"),
                                       unwrap_or(get(candle, "size"), R(0))))
        s1 == update_moving_averages(
                  [s EXCEPT !.volume_history = PushWindow(@, volume, 100)],
                  current_price)
        closed == [s1 EXCEPT !.position_state = "Flat",
                             !.entry_price = R(0),
                             !.entry_time = ""]
        exit_order == IF s1.position_state = "Long" THEN "Sell" ELSE "Buy"
        signal == check_crossover_signal(s1)
    IN IF FLe(current_price, R(0)) THEN [order |-> None, next |-> s]
       ELSE IF s1.position_state # "Flat"
       THEN IF MovingAverage_should_exit_position(s1, current_price)
            THEN [order |-> Some(MkOrder(exit_order, current_price)),
                  next |-> closed]
            ELSE IF /\ is_some(signal)
                    /\ \/ s1.position_state = "Long" /\ unwrap(signal) = "Sell"
                       \/ s1.position_state = "Short" /\ unwrap(signal) = "Buy"
            THEN [order |-> Some(MkOrder(exit_order, current_price)),
                  next |-> closed]
            ELSE [order |-> None, next |-> s1]
       ELSE IF is_some(signal)
       THEN IF ~check_volume_condition(s1, volume)
            THEN [order |-> None, next |-> s1]
            ELSE [order |-> Some(MkOrder(unwrap(signal), current_price)),
                  next |-> [s1 EXCEPT !.position_state =
                                          IF unwrap(signal) = "Buy"
                                          THEN "Long" ELSE "Short",
                                      !.entry_price = current_price,
                                      !.entry_time = candle.date]]
       ELSE [order |-> None, next |-> s1]

\* OptionsMomentumStrategy (main.rs): Err when any of its five keys is
\* missing.
OptionsMomentumStrategy_new(p) ==
    LET lookback == StrategyParams_get(p, "lookback_periods")
        momentum == StrategyParams_get(p, "momentum_threshold")
        target == StrategyParams_get(p, "profit_target")
        stop == StrategyParams_get(p, "stop_loss")
        min_days == StrategyParams_get(p, "min_days_to_expiry")
    IN IF lookback = None THEN Err
       ELSE IF momentum = None THEN Err
       ELSE IF target = None THEN Err
       ELSE IF stop = None THEN Err
       ELSE IF min_days = None THEN Err
       ELSE Ok([lookback_periods |-> AsUnsigned(unwrap(lookback)),
                momentum_threshold |-> FDiv(unwrap(momentum), R(100)),
                profit_target |-> FDiv(unwrap(target), R(100)),
                stop_loss |-> FDiv(unwrap(stop), R(100)),
                min_days_to_expiry |-> unwrap(min_days),
                underlying_history |-> <<>>,
                volume_history |-> <<>>,
                position_state |-> "Flat",
                current_contract |-> None])

OptionsMomentumStrategy_reset(s) ==
    [s EXCEPT !.underlying_history = <<>>,
              !.volume_history = <<>>,
              !.position_state = "Flat",
              !.current_contract = None]

get_momentum(s) ==
    LET h == s.underlying_history
        at == Len(h) - s.lookback_periods + 1
    IN IF Len(h) < s.lookback_periods THEN None
       ELSE IF h = <<>> THEN None
       ELSE IF at > Len(h) THEN None
       ELSE Some(FDiv(FSub(h[Len(h)], h[at]), h[at]))

\* candle.date.parse::<u64>() on the date texts the modelled events carry.
\* A timestamp is held in whole days: n stands for n * 86400 * 10^9
\* nanoseconds.
ParseU64(text) ==
    CASE text = "1" -> Ok(1)
      [] text = "2" -> Ok(2)
      [] text = "3" -> Ok(3)
      [] text = "4" -> Ok(4)
      [] OTHER -> Err

SecondsPerDay == 86400
\* timestamp / 1_000_000_000: the seconds of a timestamp held in days.
SecondsOf(timestamp) == timestamp * SecondsPerDay

parse_option_info(candle) ==
    LET class == get_string(candle, "instrument_class")
        strike_price == get(candle, "strike_price")
        expiration == get(candle, "expiration")
        instrument_id == get(candle, "instrument_id")
    IN IF class = None THEN None
       ELSE IF unwrap(class) \notin {"C", "P"} THEN None
       ELSE IF strike_price = None THEN None
       ELSE IF FLe(unwrap(strike_price), R(0)) THEN None
       ELSE IF expiration = None THEN None
       ELSE IF FLe(unwrap(expiration), R(0)) \/ ~is_finite(unwrap(expiration))
       THEN None
       ELSE IF instrument_id = None THEN None
       ELSE IF \/ FLe(unwrap(instrument_id), R(0))
               \/ ~is_finite(unwrap(instrument_id))
       THEN None
       ELSE Some([option_type |-> IF unwrap(class) = "C" THEN "Call"
                                  ELSE "Put",
                  strike_price |-> unwrap(strike_price),
                  expiration |-> AsUnsigned(unwrap(expiration)),
                  instrument_id |-> AsUnsigned(unwrap(instrument_id)),
                  symbol |->
                      unwrap_or(get_string(candle, "raw_symbol"),
                          unwrap_or(get_string(candle, "symbol_def"),
                              unwrap_or(get_string(candle, "symbol"),
                                        "UNKNOWN")))])

\* The order type for an option whose price, expiry and momentum pass.
MomentumSignal(s, info, underlying_price, momentum) ==
    LET moneyness ==
            IF info.option_type = "Call"
            THEN FDiv(underlying_price, info.strike_price)
            ELSE FDiv(info.strike_price, underlying_price)
        with_trend ==
            IF info.option_type = "Call"
            THEN FGt(momentum, s.momentum_threshold)
            ELSE FLt(momentum, FNeg(s.momentum_threshold))
    IN IF FLt(moneyness, Q(4, 5)) THEN None
       ELSE IF with_trend /\ FGe(moneyness, Q(9, 10))
               /\ FLe(moneyness, Q(11, 10))
       THEN Some("MarketBuy")
       ELSE None

should_trade_option(s, candle, underlying_price) ==
    LET option_price == get(candle, "price")
        info == parse_option_info(candle)
        parsed == ParseU64(candle.date)
        current_time_ns == IF parsed.ok THEN parsed.value ELSE 0
        current_time == SecondsOf(current_time_ns)
        expiration_seconds == SecondsOf(unwrap(info).expiration)
        days_to_expiry ==
            (expiration_seconds - current_time) \div SecondsPerDay
        momentum == get_momentum(s)
    IN IF option_price = None THEN None
       ELSE IF FLt(unwrap(option_price), Q(1, 20)) THEN None
       ELSE IF info = None THEN None
       ELSE IF current_time_ns = 0 \/ unwrap(info).expiration = 0 THEN None
       ELSE IF expiration_seconds <= current_time THEN None
       ELSE IF days_to_expiry <= AsUnsigned(s.min_days_to_expiry) THEN None
       ELSE IF momentum = None THEN None
       ELSE MomentumSignal(s, unwrap(info), underlying_price,
                           unwrap(momentum))

OptionsMomentum_should_exit_position(s, current_price, current_time_ns) ==
    IF s.current_contract = None THEN FALSE
    ELSE LET contract == unwrap(s.current_contract)
             pnl_pct == FDiv(FSub(current_price, contract.entry_price),
                             contract.entry_price)
             current_time == SecondsOf(current_time_ns)
             expiration_seconds == SecondsOf(contract.expiration)
         IN \/ FGe(pnl_pct, s.profit_target)
            \/ FLe(pnl_pct, FNeg(s.stop_loss))
            \/ /\ expiration_seconds > current_time
               /\ (expiration_seconds - current_time) \div SecondsPerDay
                      <= AsUnsigned(s.min_days_to_expiry)

\* on_candle: the order returned and the instance afterwards.
OptionsMomentumStrategy_on_candle(s, candle) ==
    LET underlying_bid == get(candle, "underlying_bid")
        underlying_ask == get(candle, "underlying_ask")
        underlying_price ==
            FDiv(FAdd(unwrap(underlying_bid), unwrap(underlying_ask)), R(2))
        option_price == get(candle, "price")
        size == get(candle, "size")
        s1 == [s EXCEPT !.underlying_history =
                            PushWindow(@, underlying_price,
                                       s.lookback_periods + 1),
                        !.volume_history =
                            PushWindow(@, AsUnsigned(unwrap(size)),
                                       s.lookback_periods + 1)]
        info == parse_option_info(candle)
        parsed == ParseU64(candle.date)
        current_time_ns == IF parsed.ok THEN parsed.value ELSE 0
        signal == should_trade_option(s1, candle, underlying_price)
    IN IF underlying_bid = None \/ underlying_ask = None
          \/ option_price = None \/ size = None
       THEN [order |-> None, next |-> s]
       ELSE IF s1.position_state # "Flat"
       THEN IF /\ is_some(s1.current_contract)
               /\ is_some(info)
               /\ unwrap(info).instrument_id
                      = unwrap(s1.current_contract).instrument_id
               /\ OptionsMomentum_should_exit_position(
                      s1, unwrap(option_price), current_time_ns)
            THEN [order |-> Some(MkOrder("MarketSell", unwrap(option_price))),
                  next |-> [s1 EXCEPT !.position_state = "Flat",
                                      !.current_contract = None]]
            ELSE [order |-> None, next |-> s1]
       ELSE IF Len(s1.underlying_history) <= s1.lookback_periods
       THEN [order |-> None, next |-> s1]
       ELSE IF is_some(signal) /\ is_some(info)
       THEN [order |-> Some(MkOrder(unwrap(signal), unwrap(option_price))),
             next |-> [s1 EXCEPT
                 !.position_state = IF unwrap(signal) = "MarketBuy"
                                    THEN "Long" ELSE "Short",
                 !.current_contract =
                     Some([instrument_id |-> unwrap(info).instrument_id,
                           symbol |-> unwrap(info).symbol,
                           strike_price |-> unwrap(info).strike_price,
                           expiration |-> unwrap(info).expiration,
                           option_type |-> unwrap(info).option_type,
                           entry_price |-> unwrap(option_price),
                           entry_time |-> candle.date])]]
       ELSE [order |-> None, next |-> s1]

\* ------------------------------------------- strategy instances alone
\* Most events an instance consumes before a reset, and most events it is
\* fed after one.
MaxWarmup == 3
MaxReplay == 4

\* Parameter sets of the moving-average-cross strategy: every pairing of
\* the window values (whole, fractional, negative, or the key absent)
\* without the optional keys, a short window of NaN, and the windows 1 and
\* 2 with each of the optional keys.
WindowValues == {R(1), R(2), R(3), Q(5, 2), R(-1)}

MovingAverageParams ==
    {[short_ma_period |-> a, long_ma_period |-> b] :
         a \in WindowValues, b \in WindowValues}
    \cup {[short_ma_period |-> a] : a \in WindowValues}
    \cup {[long_ma_period |-> b] : b \in WindowValues}
    \cup {[volume_threshold |-> R(2)],
          [short_ma_period |-> NaN, long_ma_period |-> R(2)]}
    \cup {[short_ma_period |-> R(1), long_ma_period |-> R(2),
           profit_target |-> R(50)],
          [short_ma_period |-> R(1), long_ma_period |-> R(2),
           stop_loss |-> R(25)],
          [short_ma_period |-> R(1), long_ma_period |-> R(2),
           volume_threshold |-> R(2), profit_target |-> R(50),
           stop_loss |-> R(25)]}

\* Parameter sets of the options momentum strategy: complete ones, and the
\* same with one key left out.
CompleteOptionsParams ==
    {[lookback_periods |-> n, momentum_threshold |-> R(10),
      profit_target |-> R(50), stop_loss |-> R(25),
      min_days_to_expiry |-> d] : n \in {R(1), R(2)}, d \in {R(0), R(1)}}

Without(p, key) == [k \in DOMAIN p \ {key} |-> p[k]]

OptionsMomentumParams ==
    CompleteOptionsParams
    \cup {Without(p, key) :
              p \in {[lookback_periods |-> R(2), momentum_threshold |-> R(10),
                      profit_target |-> R(50), stop_loss |-> R(25),
                      min_days_to_expiry |-> R(1)]},
              key \in {"lookback_periods", "momentum_threshold",
                       "profit_target", "stop_loss", "min_days_to_expiry"}}

StrategyInputs ==
    {[strategy |-> "MovingAverageCross", values |-> p] :
         p \in MovingAverageParams}
    \cup {[strategy |-> "OptionsMomentum", values |-> p] :
              p \in OptionsMomentumParams}

\* The events fed to a moving-average-cross instance: bars closing at 1 and
\* 4, a quote with bid 1 and ask 3, and an event without any price.
Bar(date, close) ==
    [date |-> date, fields |-> [close |-> close, volume |-> R(40)],
     string_fields |-> [symbol |-> "SYM"]]

MovingAverageEvents ==
    {Bar("1", R(1)), Bar("3", R(4)),
     [date |-> "2", fields |-> [bid |-> R(1), ask |-> R(3), size |-> R(10)],
      string_fields |-> [symbol |-> "SYM"]],
     [date |-> "4", fields |-> [volume |-> R(40)],
      string_fields |-> [symbol |-> "SYM"]]}

\* The events fed to an options momentum instance: quotes of one call
\* (instrument 7, strike 12, expiring on day 4) with the underlying at 10
\* or 12 and the option at 2 or 3, on days 1 to 3; a put (instrument 8,
\* strike 10); and a quote without a size.
OptionQuote(date, underlying, price, class, strike, id) ==
    [date |-> date,
     fields |-> [underlying_bid |-> underlying, underlying_ask |-> underlying,
                 price |-> price, size |-> R(10), strike_price |-> strike,
                 expiration |-> R(4), instrument_id |-> id],
     string_fields |-> [instrument_class |-> class, symbol |-> "SYM"]]

OptionsMomentumEvents ==
    {OptionQuote("1", R(10), R(2), "C", R(12), R(7)),
     OptionQuote("1", R(12), R(2), "C", R(12), R(7)),
     OptionQuote("2", R(12), R(3), "C", R(12), R(7)),
     OptionQuote("3", R(12), R(2), "C", R(12), R(7)),
     OptionQuote("1", R(10), R(2), "P", R(10), R(8)),
     [date |-> "1",
      fields |-> [underlying_bid |-> R(12), underlying_ask |-> R(12),
                  price |-> R(2)],
      string_fields |-> [instrument_class |-> "C", symbol |-> "SYM"]]}

\* The strategy named by a parameter set: its constructor, its reset, its
\* on_candle and the events it is fed.
StrategyNew(p) ==
    IF p.strategy = "MovingAverageCross"
    THEN MovingAverageCrossStrategy_new(p.values)
    ELSE OptionsMomentumStrategy_new(p.values)

StrategyReset(p, s) ==
    IF p.strategy = "MovingAverageCross"
    THEN MovingAverageCrossStrategy_reset(s)
    ELSE OptionsMomentumStrategy_reset(s)

StrategyOnCandle(p, s, candle) ==
    IF p.strategy = "MovingAverageCross"
    THEN MovingAverageCrossStrategy_on_candle(s, candle)
    ELSE OptionsMomentumStrategy_on_candle(s, candle)

StrategyEvents(p) ==
    IF p.strategy = "MovingAverageCross" THEN MovingAverageEvents
    ELSE OptionsMomentumEvents

\* instance: None before construction, then the constructor's Result, its
\* value stepped by on_candle and reset. twin: the instance built by
\* new(params) when the first one is reset. emitted: the orders the
\* instance returned before its reset, and those the instance and the twin
\* returned after it.
StrategyInit ==
    /\ NoRun
    /\ call = None
    /\ ret = None
    /\ params \in {Some(p) : p \in StrategyInputs}
    /\ instance = None
    /\ twin = None
    /\ emitted = [before |-> <<>>, instance |-> <<>>, twin |-> <<>>]

Idle ==
    /\ UNCHANGED <<call, ret, params>>
    /\ UNCHANGED <<symbol, transaction_costs, starting_equity, exposure>>
    /\ UNCHANGED engine
    /\ UNCHANGED sweep

Construct ==
    /\ pc = "call"
    /\ is_some(params)
    /\ instance = None
    /\ instance' = Some(StrategyNew(unwrap(params)))
    /\ UNCHANGED <<twin, emitted>>
    /\ Idle

Consume ==
    /\ pc = "call"
    /\ is_some(params)
    /\ is_some(instance) /\ unwrap(instance).ok
    /\ twin = None
    /\ Len(emitted.before) < MaxWarmup
    /\ \E candle \in StrategyEvents(unwrap(params)) :
           LET step == StrategyOnCandle(unwrap(params),
                                        unwrap(instance).value, candle)
           IN /\ instance' = Some(Ok(step.next))
              /\ emitted' = [emitted EXCEPT
                                 !.before = Append(@, step.order)]
    /\ UNCHANGED twin
    /\ Idle

Reset ==
    /\ pc = "call"
    /\ is_some(params)
    /\ is_some(instance) /\ unwrap(instance).ok
    /\ twin = None
    /\ instance' = Some(Ok(StrategyReset(unwrap(params),
                                         unwrap(instance).value)))
    /\ twin' = Some(StrategyNew(unwrap(params)).value)
    /\ UNCHANGED emitted
    /\ Idle

Replay ==
    /\ pc = "call"
    /\ is_some(params)
    /\ is_some(instance) /\ unwrap(instance).ok
    /\ is_some(twin)
    /\ Len(emitted.instance) < MaxReplay
    /\ \E candle \in StrategyEvents(unwrap(params)) :
           LET step == StrategyOnCandle(unwrap(params),
                                        unwrap(instance).value, candle)
               fresh == StrategyOnCandle(unwrap(params), unwrap(twin),
                                         candle)
           IN /\ instance' = Some(Ok(step.next))
              /\ twin' = Some(fresh.next)
              /\ emitted' = [emitted EXCEPT
                                 !.instance = Append(@, step.order),
                                 !.twin = Append(@, fresh.order)]
    /\ Idle

StrategyNext == Construct \/ Consume \/ Reset \/ Replay

StrategySpec == StrategyInit /\ [][StrategyNext]_vars

\* ------------------------------- FootprintVolumeImbalance in the engine
\* FootprintVolumeImbalance (examples/footprint): Err when any of its five
\* keys is missing.
FootprintVolumeImbalance_new(p) ==
    IF \E key \in {"imbalance_threshold", "volume_threshold",
                   "lookback_periods", "tp", "sl"} :
           StrategyParams_get(p, key) = None
    THEN Err
    ELSE Ok([imbalance_threshold |-> p["imbalance_threshold"],
             volume_threshold |-> AsUnsigned(p["volume_threshold"]),
             tp |-> p["tp"],
             sl |-> p["sl"],
             lookback_periods |-> AsUnsigned(p["lookback_periods"]),
             candle_history |-> <<>>,
             last_signal |-> None,
             current_position |-> None,
             entry_price |-> None])

\* The text of footprint_data is modelled by whether it is JSON and, when it
\* is an object, by the arrays of its members. Arrays of fewer than two
\* numbers are left out; the first two of the others are the buy and the
\* sell volume.
parse_footprint_data(footprint_json) ==
    IF ~footprint_json.json THEN Err
    ELSE Ok({<<k, footprint_json.object[k][1], footprint_json.object[k][2]>> :
                k \in {j \in 1..Len(footprint_json.object) :
                          Len(footprint_json.object[j]) >= 2}})

RECURSIVE SumColumn(_, _)
SumColumn(rows, col) ==
    IF rows = {} THEN 0
    ELSE LET row == CHOOSE r \in rows : TRUE
         IN row[col] + SumColumn(rows \ {row}, col)

calculate_imbalance(candle) ==
    IF get_string(candle, "footprint_data") = None THEN Err
    ELSE LET parsed ==
                 parse_footprint_data(unwrap(get_string(candle,
                                                        "footprint_data")))
         IN IF ~parsed.ok THEN Err
            ELSE LET total_buy_volume == SumColumn(parsed.value, 2)
                     total_sell_volume == SumColumn(parsed.value, 3)
                     total_volume == total_buy_volume + total_sell_volume
                 IN IF total_volume = 0 THEN Ok(R(0))
                    ELSE Ok(FDiv(FSub(R(total_buy_volume),
                                      R(total_sell_volume)),
                                 R(total_volume)))

\* The loop of calculate_average_imbalance from the k-th candle of the
\* history on; acc holds weighted_imbalance and total_weight.
RECURSIVE AverageImbalanceLoop(_, _, _)
AverageImbalanceLoop(history, k, acc) ==
    IF k > Len(history)
    THEN (IF acc.total_weight = R(0) THEN Ok(R(0))
          ELSE Ok(FDiv(acc.weighted_imbalance, acc.total_weight)))
    ELSE IF get(history[k], "volume") = None THEN Err
    ELSE IF ~calculate_imbalance(history[k]).ok THEN Err
    ELSE AverageImbalanceLoop(
             history, k + 1,
             [weighted_imbalance |->
                  FAdd(acc.weighted_imbalance,
                       FMul(calculate_imbalance(history[k]).value,
                            unwrap(get(history[k], "volume")))),
              total_weight |->
                  FAdd(acc.total_weight, unwrap(get(history[k], "volume")))])

calculate_average_imbalance(s) ==
    IF Len(s.candle_history) = 0 THEN Ok(R(0))
    ELSE AverageImbalanceLoop(s.candle_history, 1,
                              [weighted_imbalance |-> R(0),
                               total_weight |-> R(0)])

\* Whether the take-profit or the stop-loss level of the position the
\* strategy believes it holds is reached at close.
FootprintExitLevelReached(s, close) ==
    LET entry == unwrap(s.entry_price)
    IN IF unwrap(s.current_position) = "MarketBuy"
       THEN \/ FGe(close, FMul(entry, FAdd(R(1), s.tp)))
            \/ FLe(close, FMul(entry, FSub(R(1), s.sl)))
       ELSE \/ FLe(close, FMul(entry, FSub(R(1), s.tp)))
            \/ FGe(close, FMul(entry, FAdd(R(1), s.sl)))

\* on_candle of a candle that has close and volume (it panics on any other).
FootprintVolumeImbalance_on_candle(s, candle) ==
    LET close == unwrap(get(candle, "close"))
        volume == AsUnsigned(unwrap(get(candle, "volume")))
        pushed == Append(s.candle_history, candle)
        s1 == [s EXCEPT !.candle_history =
                            IF Len(pushed) > s.lookback_periods
                            THEN Tail(pushed) ELSE pushed]
        current == calculate_imbalance(candle)
        average == calculate_average_imbalance(s1)
        new_signal ==
            IF /\ FGt(current.value, s1.imbalance_threshold)
               /\ FGt(average.value, R(0))
            THEN Some("MarketBuy")
            ELSE IF /\ FLt(current.value, FNeg(s1.imbalance_threshold))
                    /\ FLt(average.value, R(0))
            THEN Some("MarketSell")
            ELSE None
    IN IF Len(s1.candle_history) < s1.lookback_periods
       THEN [order |-> None, next |-> s1]
       ELSE IF /\ is_some(s1.current_position) /\ is_some(s1.entry_price)
               /\ FootprintExitLevelReached(s1, close)
       THEN [order |->
                 Some(MkOrder(IF unwrap(s1.current_position) = "MarketBuy"
                              THEN "MarketSell" ELSE "MarketBuy", close)),
             next |-> [s1 EXCEPT !.current_position = None,
                                 !.entry_price = None]]
       ELSE IF volume < s1.volume_threshold
       THEN [order |-> None, next |-> s1]
       ELSE IF ~current.ok THEN [order |-> None, next |-> s1]
       ELSE IF ~average.ok THEN [order |-> None, next |-> s1]
       ELSE IF is_some(new_signal) /\ new_signal # s1.last_signal
       THEN [order |-> Some(MkOrder(unwrap(new_signal), close)),
             next |-> [s1 EXCEPT !.last_signal = new_signal,
                                 !.current_position = new_signal,
                                 !.entry_price = Some(close)]]
       ELSE [order |-> None, next |-> s1]

\* Footprint bars: buying or selling pressure at a close, a bar of low
\* volume, and a bar whose footprint_data is not JSON.
FootprintBar(close, volume, buy, sell) ==
    [fields |-> [close |-> close, volume |-> volume],
     string_fields |->
         [footprint_data |->
              [json |-> TRUE, object |-> <<<<buy, sell>>, <<7>>>>]]]

FootprintBars ==
    {FootprintBar(R(4), R(500), 400, 100),
     FootprintBar(R(4), R(500), 100, 400),
     FootprintBar(R(5), R(500), 400, 100),
     FootprintBar(R(4), R(100), 400, 100),
     [fields |-> [close |-> R(4), volume |-> R(500)],
      string_fields |-> [footprint_data |-> [json |-> FALSE]]]}

FootprintCandles(bars) ==
    [k \in 1..Len(bars) |->
        [date |-> k, fields |-> bars[k].fields,
         string_fields |-> bars[k].string_fields]]

FootprintParams ==
    {[imbalance_threshold |-> Q(1, 5), volume_threshold |-> R(200),
      lookback_periods |-> R(n), tp |-> Q(1, 4), sl |-> Q(1, 4)] :
        n \in {1, 2}}

\* run_backtest_with_candles on footprint bars with a freshly constructed
\* FootprintVolumeImbalance.
FootprintInit ==
    /\ symbol = [root |-> "AA", continuous |-> FALSE]
    /\ transaction_costs = CheapCosts
    /\ starting_equity = R(10000)
    /\ exposure = Q(1, 2)
    /\ order_prices = {}
    /\ candles \in {FootprintCandles(q) :
                       q \in SeqsUpTo(FootprintBars, MaxCandles)}
    /\ equity = starting_equity
    /\ position = Neutral
    /\ prev_candle = None
    /\ trades = <<>>
    /\ equity_curve = <<starting_equity>>
    /\ pending_order = None
    /\ pending_limit_orders = <<>>
    /\ idx = 1
    /\ pc = "limit"
    /\ result = None
    /\ warnings = 0
    /\ submitted = {}
    /\ tested = {}
    /\ fills = <<>>
    /\ last_order = None
    /\ call = None
    /\ ret = None
    /\ \E p \in FootprintParams :
          /\ params = Some(p)
          /\ instance = Some(FootprintVolumeImbalance_new(p).value)
    /\ twin = None
    /\ emitted = <<>>
    /\ parameter_combinations = <<>>
    /\ csv = [records |-> <<>>]
    /\ open_fails = {}
    /\ workers = <<>>
    /\ completion = <<>>
    /\ sorted_results = None

\* The third block of the loop body with the strategy's own answer.
FootprintStrategyPhase ==
    /\ pc = "strategy"
    /\ {"close", "volume"} \subseteq DOMAIN candles[idx].fields
    /\ \E answer \in {FootprintVolumeImbalance_on_candle(unwrap(instance),
                                                         candles[idx])} :
         \E out \in {IF is_some(answer.order)
                     THEN Some([order_type |-> unwrap(answer.order).order_type,
                                price |-> unwrap(answer.order).price,
                                at |-> idx])
                     ELSE None} :
           /\ instance' = Some(answer.next)
           /\ last_order' = out
           /\ IF is_some(out) /\ IsExitOrder(position, unwrap(out))
              THEN \E exit_price \in {ExitPrice(position, unwrap(out))} :
                     ExitBranch(unwrap(out), candles[idx], exit_price,
                                ExitPnl(position, exit_price))
              ELSE IF is_some(out) /\ position.kind = "Neutral"
              THEN QueueBranch(unwrap(out), candles[idx])
              ELSE /\ EndOfIteration(equity, candles[idx])
                   /\ UNCHANGED <<position, trades, pending_order,
                                  pending_limit_orders, submitted, fills>>
    /\ idx' = idx + 1
    /\ pc' = "limit"
    /\ UNCHANGED sweep
    /\ UNCHANGED <<call, ret, params, twin, emitted>>
    /\ UNCHANGED <<inputs, result, warnings, tested>>

FootprintNext ==
    \/ LimitPhase
    \/ MarketPhase
    \/ FootprintStrategyPhase
    \/ Finish

FootprintSpec == FootprintInit /\ [][FootprintNext]_vars

\* ---------------------------------------------------------------- claims
\* Helpers of the statements below.
IsLimit(o) == o.order_type \in {"LimitBuy", "LimitSell"}
IsMarket(o) == o.order_type \in {"MarketBuy", "MarketSell"}
EntryKind(o) ==
    IF o.order_type \in {"MarketBuy", "LimitBuy"} THEN "Long" ELSE "Short"
\* The fills logged so far of a given kind ("limit", "market" or "exit").
FillsVia(via) == {k \in 1..Len(fills) : fills[k].via = via}
\* The run has returned its BacktestResult.
Returned == is_some(result)

\* C1: the returned equity curve has one value per event of the series plus
\* the seed, and starts at starting_equity, on every path through the loop.
C1_CurveLength ==
    Returned =>
        /\ Len(unwrap(result).equity_curve) = Len(candles) + 1
        /\ unwrap(result).equity_curve[1] = starting_equity

\* C2: the ledger holds one Position value, and a step appends a Trade
\* exactly when it takes the position from Long or Short to Neutral (one
\* trade, at the end of the list, the earlier trades untouched).
C2_TradeIffToNeutral ==
    /\ [](position.kind \in {"Neutral", "Long", "Short"})
    /\ [][/\ (Len(trades') # Len(trades)
                <=> (position.kind # "Neutral" /\ position'.kind = "Neutral"))
          /\ Len(trades') \in {Len(trades), Len(trades) + 1}
          /\ SubSeq(trades', 1, Len(trades)) = trades]_vars

C2_Witness == Len(trades) = 2 /\ position.kind = "Neutral"

\* C3: the position starts Neutral and changes only Neutral -> Long on a
\* filled MarketBuy/LimitBuy, Neutral -> Short on a filled
\* MarketSell/LimitSell, Long -> Neutral on a strategy MarketSell and
\* Short -> Neutral on a strategy MarketBuy.
C3_Transitions ==
    /\ position = Neutral
    /\ [][position' # position =>
            /\ Len(fills') = Len(fills) + 1
            /\ LET f == fills'[Len(fills')]
               IN \/ /\ position.kind = "Neutral" /\ position'.kind = "Long"
                     /\ \/ pc = "limit" /\ f.order_type = "LimitBuy"
                        \/ pc = "market" /\ f.order_type = "MarketBuy"
                  \/ /\ position.kind = "Neutral" /\ position'.kind = "Short"
                     /\ \/ pc = "limit" /\ f.order_type = "LimitSell"
                        \/ pc = "market" /\ f.order_type = "MarketSell"
                  \/ /\ position.kind = "Long" /\ position' = Neutral
                     /\ pc = "strategy" /\ f.order_type = "MarketSell"
                  \/ /\ position.kind = "Short" /\ position' = Neutral
                     /\ pc = "strategy" /\ f.order_type = "MarketBuy"]_vars

C3_Witness == Len(trades) >= 1 /\ position.kind = "Short"

\* C4 as claimed: a market order emitted while Neutral leaves the position
\* alone during its own event, and the next event's market-order block
\* opens the position in the order's direction, dated with that event.
C4_MarketOrderOpensNextEvent ==
    [][/\ (pc = "strategy" /\ position.kind = "Neutral") => position' = position
       /\ (pc = "market" /\ is_some(pending_order)) =>
              /\ unwrap(pending_order).at = idx - 1
              /\ position'.kind = EntryKind(unwrap(pending_order))
              /\ position'.entry_date = candles[idx].date]_vars

\* C4 amended: ... the next event's market-order block opens the position,
\* dated with that event, when the ledger is still Neutral there, and drops
\* the order without a fill when a limit order opened a position first; no
\* market order emitted on the last event is ever filled.
C4_MarketOrderDueNextEvent ==
    /\ [][/\ (pc = "strategy" /\ position.kind = "Neutral")
                => position' = position
          /\ (pc = "market" /\ is_some(pending_order)) =>
                 /\ unwrap(pending_order).at = idx - 1
                 /\ pending_order' = None
                 /\ IF position.kind = "Neutral"
                    THEN /\ position'.kind = EntryKind(unwrap(pending_order))
                         /\ position'.entry_date = candles[idx].date
                    ELSE position' = position]_vars
    /\ [](\A k \in FillsVia("market") :
             fills[k].idx = fills[k].at + 1 /\ fills[k].at < Len(candles))

C4_Witness ==
    /\ Returned
    /\ is_some(pending_order)
    /\ \E k \in FillsVia("market") : fills[k].idx = fills[k].at + 1

C6_EntryAtNextEventPrice ==
    [][(pc = "market" /\ is_some(pending_order) /\ position.kind = "Neutral") =>
          LET candle == candles[idx]
              representative ==
                  IF is_some(get(candle, "bid_price"))
                     /\ is_some(get(candle, "ask_price"))
                  THEN FDiv(FAdd(unwrap(get(candle, "bid_price")),
                                 unwrap(get(candle, "ask_price"))), R(2))
                  ELSE unwrap_or(get(candle, "close"),
                                 unwrap_or(get(candle, "price"),
                                           unwrap(pending_order).price))
          IN position'.entry =
                 adjust_fill_price(transaction_costs, representative,
                                   position'.size,
                                   position'.kind = "Long")]_vars

\* C7: a market order that comes due while the ledger is not Neutral is
\* dropped: position, equity, equity curve, trades and pending limit orders
\* are unchanged by it, a warning is printed, and the loop can always take
\* its next step until the result is returned.
C7_SkippedFill ==
    /\ [][(pc = "market" /\ is_some(pending_order)
              /\ position.kind # "Neutral") =>
             /\ position' = position
             /\ equity' = equity
             /\ equity_curve' = equity_curve
             /\ trades' = trades
             /\ pending_limit_orders' = pending_limit_orders
             /\ pending_order' = None
             /\ warnings' = warnings + 1]_vars
    /\ []((warnings > 0 /\ ~Returned) => ENABLED Next)

C7_Witness == warnings = 1 /\ Returned /\ Len(trades) = 1

\* C8: a limit order submitted while Neutral opens a position during an
\* event exactly when that event is later than its submission, meets its
\* price (low <= P for a LimitBuy, high >= P for a LimitSell), the ledger
\* is Neutral, and no limit order submitted before it and still unfilled is
\* eligible on the same event.
UnfilledLimitOrders ==
    {o \in submitted :
        IsLimit(o) /\ \A k \in FillsVia("limit") : fills[k].at # o.at}

C8_LimitFillsIffPriceMet ==
    [][(pc = "limit" /\ idx <= Len(candles)) =>
          \A o \in UnfilledLimitOrders :
              (/\ should_fill_limit_order(o, candles[idx])
               /\ position.kind = "Neutral"
               /\ \A e \in UnfilledLimitOrders :
                      e.at < o.at =>
                          ~should_fill_limit_order(e, candles[idx]))
              <=> (/\ Len(fills') = Len(fills) + 1
                   /\ fills'[Len(fills')].at = o.at
                   /\ position'.kind = EntryKind(o))]_vars

\* C9: when several pending limit orders are eligible on an event, every
\* eligible order but the first is still pending after the step.
C9_OthersStayPending ==
    [][(pc = "limit" /\ idx <= Len(candles)) =>
          LET eligible == FilledLimitOrders(pending_limit_orders, candles[idx])
          IN \A k \in 2..Len(eligible) :
                 \E j \in 1..Len(pending_limit_orders') :
                     pending_limit_orders'[j] = eligible[k]]_vars

\* C10: a limit order emitted on event i is tested against no event up to
\* i and is tested against event i+1 when there is one; it fills on no
\* event up to i, so one emitted on the last event never fills.
C10_LimitTestedFromNextEvent ==
    /\ \A t \in tested : t[2] > t[1]
    /\ \A k \in FillsVia("limit") :
           fills[k].idx > fills[k].at /\ <<fills[k].at, fills[k].idx>> \in tested
    /\ \A o \in submitted :
           (/\ IsLimit(o)
            /\ o.at < Len(candles)
            /\ (o.at + 1 < idx \/ (o.at + 1 = idx /\ pc # "limit")))
               => <<o.at, o.at + 1>> \in tested
    /\ \A o \in submitted : o.at = Len(candles) => \A t \in tested : t[1] # o.at

C10_Witness ==
    /\ Returned
    /\ FillsVia("limit") # {}
    /\ \E o \in submitted : IsLimit(o) /\ o.at = Len(candles)
\* The order an entry step fills: the first eligible limit order in the
\* limit block, the pending market order in the market block.
FilledEntryOrder ==
    IF pc = "limit"
    THEN Head(FilledLimitOrders(pending_limit_orders, candles[idx]))
    ELSE unwrap(pending_order)

\* The size the sizing rule of C11 gives for a fill price: the capital
\* divided by the notional price (x 100 for options, x point value for a
\* futures symbol, the price itself otherwise), rounded down.
ClaimedEntrySize(fill_price) ==
    LET notional_price ==
            IF is_options_trading THEN FMul(fill_price, R(100))
            ELSE IF is_some(futures_multiplier)
                 THEN FMul(fill_price, unwrap(futures_multiplier))
            ELSE fill_price
    IN FFloor(FDiv(FMul(equity, exposure), notional_price))

\* C11: on every entry fill (market or limit) the position size is
\* floor((equity x exposure) / notional_price) for the realized equity at
\* the fill, the fill price being read as the order's price or as the
\* cost-adjusted entry price, whichever fits.
C11_EntrySizing ==
    [][(position.kind = "Neutral" /\ position'.kind # "Neutral") =>
          position'.size \in {ClaimedEntrySize(FilledEntryOrder.price),
                              ClaimedEntrySize(position'.entry)}]_vars

\* The trade a step has just appended.
LastTrade(ts) == ts[Len(ts)]

\* C12: under the zero-cost model a Long round trip records
\* pnl = (exit - entry) x size x multiplier and pnl_pct = (exit/entry - 1) x
\* 100, and adds the pnl to the equity; with equity 100000 and exposure 0.5
\* an entry at 100 has size 500, and its exit at 110 has pnl 5000 and
\* pnl_pct 10.
C12_ZeroCostRoundTrip ==
    /\ [][(transaction_costs = ZeroCosts /\ Len(trades') > Len(trades)
              /\ position.kind = "Long") =>
             LET t == LastTrade(trades')
             IN /\ t.entry_price = position.entry /\ t.size = position.size
                /\ t.pnl = FMul(FMul(FSub(t.exit_price, t.entry_price), t.size),
                                IF is_options_trading THEN R(100)
                                ELSE unwrap_or(futures_multiplier, R(1)))
                /\ t.pnl_pct =
                       FMul(FSub(FDiv(t.exit_price, t.entry_price), R(1)),
                            R(100))
                /\ equity' = FAdd(equity, t.pnl)]_vars
    /\ []((/\ transaction_costs = ZeroCosts
           /\ equity = R(100000) /\ exposure = Q(1, 2)
           /\ position.kind = "Long" /\ position.entry = R(100))
              => position.size = R(500))
    /\ [](\A k \in 1..Len(trades) :
             (/\ transaction_costs = ZeroCosts
              /\ trades[k].trade_type = "Long"
              /\ trades[k].entry_price = R(100) /\ trades[k].size = R(500)
              /\ trades[k].exit_price = R(110))
                 => trades[k].pnl = R(5000) /\ trades[k].pnl_pct = R(10))

C12_Witness ==
    /\ transaction_costs = ZeroCosts
    /\ starting_equity = R(100000) /\ exposure = Q(1, 2)
    /\ Len(trades) = 1
    /\ trades[1].trade_type = "Long"
    /\ trades[1].entry_price = R(100) /\ trades[1].exit_price = R(110)
    /\ trades[1].size = R(500)
    /\ trades[1].pnl = R(5000) /\ trades[1].pnl_pct = R(10)
    /\ equity = R(105000)

\* The multiplier C13 states: 100 for options data, else the point value of
\* a recognised futures symbol, else 1.
ClaimedMultiplier ==
    IF is_options_trading THEN R(100)
    ELSE IF symbol.continuous
            /\ symbol.root \in {"NQ", "ES", "YM", "CL", "GC", "SI"}
         THEN get_future_multiplier(symbol.root)
    ELSE R(1)

\* C13: the PnL realized by an exit is (exit - entry) x size x multiplier -
\* entry_cost - exit_cost for a Long and (entry - exit) x size x multiplier -
\* entry_cost - exit_cost for a Short.
C13_RealizedPnl ==
    [][Len(trades') > Len(trades) =>
          LET t == LastTrade(trades')
              gross ==
                  IF position.kind = "Long"
                  THEN FMul(FMul(FSub(t.exit_price, position.entry),
                                 position.size), ClaimedMultiplier)
                  ELSE FMul(FMul(FSub(position.entry, t.exit_price),
                                 position.size), ClaimedMultiplier)
              entry_cost ==
                  calculate_entry_cost(transaction_costs, position.entry,
                                       position.size, avg_volume)
              exit_cost ==
                  calculate_exit_cost(transaction_costs, t.exit_price,
                                      position.size, avg_volume)
          IN /\ t.pnl = FSub(FSub(gross, entry_cost), exit_cost)
             /\ equity' = FAdd(equity, t.pnl)]_vars

\* C14: while a position is open, an order from the strategy other than the
\* opposite market order (MarketSell for a Long, MarketBuy for a Short)
\* changes neither the position, the equity, the trades, the pending market
\* order nor the pending limit orders.
C14_OtherOrdersAreNoOps ==
    [][(/\ pc = "strategy"
        /\ position.kind # "Neutral"
        /\ is_some(last_order')
        /\ ~(position.kind = "Long"
                 /\ unwrap(last_order').order_type = "MarketSell")
        /\ ~(position.kind = "Short"
                 /\ unwrap(last_order').order_type = "MarketBuy")) =>
          /\ position' = position
          /\ equity' = equity
          /\ trades' = trades
          /\ pending_order' = pending_order
          /\ pending_limit_orders' = pending_limit_orders]_vars

C14_Witness ==
    /\ pc = "limit" /\ idx > 1
    /\ position.kind = "Long" /\ position.entry_date < idx - 1
    /\ is_some(last_order) /\ unwrap(last_order).at = idx - 1
    /\ unwrap(last_order).order_type \in {"MarketBuy", "LimitSell"}

\* starting_equity plus the pnl of the trades, added in the order recorded.
RECURSIVE RunningTotal(_, _, _)
RunningTotal(total, ts, k) ==
    IF k > Len(ts) THEN total
    ELSE RunningTotal(FAdd(total, ts[k].pnl), ts, k + 1)

\* C15: between events the last value of the equity curve is
\* starting_equity plus the pnl of every trade recorded so far, it repeats
\* the value before it when the event just processed closed no position,
\* and the result's ending_equity is the last curve value.
C15_CurveIsRunningTotal ==
    /\ (pc = "limit" /\ ~Returned) =>
          /\ equity_curve[Len(equity_curve)] =
                 RunningTotal(starting_equity, trades, 1)
          /\ (/\ idx > 1
              /\ \A k \in 1..Len(trades) :
                     trades[k].exit_date # candles[idx - 1].date
              /\ Len(equity_curve) > 1)
                 => equity_curve[Len(equity_curve)] =
                        equity_curve[Len(equity_curve) - 1]
    /\ Returned =>
          unwrap(result).ending_equity =
              unwrap(result).equity_curve[Len(unwrap(result).equity_curve)]

\* C16: an exit whose PnL computation involves a non-finite entry cost,
\* exit cost or gross PnL (or yields a non-finite PnL) records no Trade and
\* leaves the equity alone, and the returned result counts such exits.
C16_NonFiniteExitDiscarded ==
    /\ [][(/\ pc = "strategy" /\ position.kind # "Neutral"
           /\ is_some(last_order')
           /\ \/ position.kind = "Long"
                    /\ unwrap(last_order').order_type = "MarketSell"
              \/ position.kind = "Short"
                    /\ unwrap(last_order').order_type = "MarketBuy"
           /\ LET exit_price == ExitPrice(position, unwrap(last_order'))
              IN \/ ~is_finite(calculate_entry_cost(
                         transaction_costs, position.entry, position.size,
                         avg_volume))
                 \/ ~is_finite(calculate_exit_cost(
                         transaction_costs, exit_price, position.size,
                         avg_volume))
                 \/ ~is_finite(GrossPnl(position, exit_price,
                                        ClaimedMultiplier))
                 \/ ~is_finite(ExitPnl(position, exit_price))) =>
             /\ trades' = trades
             /\ equity' = equity]_vars
    /\ [](Returned => "numeric_anomalies" \in DOMAIN unwrap(result))
\* Helpers of the statements about the sweep.
\* Worker i can read the whole data file.
DataOk(i) ==
    /\ i \notin open_fails
    /\ \A k \in 1..Len(csv.records) : csv.records[k].ok
\* Strategy construction and the run both succeed for parameter set i.
Succeeds(i) == parameter_combinations[i].valid /\ DataOk(i)
\* The positions of the returned list that belong to parameter set i.
EntriesOf(out, i) == {k \in 1..Len(out) : out[k].label.strategy = i}
\* The result of one run of a freshly constructed strategy for p on the
\* readable data file.
ReferenceResult(p) ==
    run_individual_backtest(
        [readable |-> TRUE, records |-> csv.records], symbol,
        [script |-> p.script, calls |-> 0],
        starting_equity, exposure, transaction_costs).value.result
\* The entries of the parameter sets that succeed, in list order from k on.
RECURSIVE ExpectedEntries(_)
ExpectedEntries(k) ==
    IF k > Len(parameter_combinations) THEN <<>>
    ELSE (IF Succeeds(k)
          THEN <<ResultEntry(k, parameter_combinations[k],
                             ReferenceResult(parameter_combinations[k]),
                             starting_equity)>>
          ELSE <<>>) \o ExpectedEntries(k + 1)

\* C17: the returned list has exactly one entry for each parameter set
\* whose construction and run both succeeded and none for the others (8
\* sets of which 2 fail construction give 6 entries), in non-increasing
\* order of total_return_pct.
C17_OneEntryPerSuccessSorted ==
    is_some(sorted_results) =>
        /\ \A i \in 1..Len(parameter_combinations) :
               Cardinality(EntriesOf(unwrap(sorted_results), i)) =
                   IF Succeeds(i) THEN 1 ELSE 0
        /\ \A k \in 1..Len(unwrap(sorted_results)) :
               unwrap(sorted_results)[k].label.strategy
                   \in 1..Len(parameter_combinations)
        /\ \A k \in 1..(Len(unwrap(sorted_results)) - 1) :
               FGe(unwrap(sorted_results)[k].result.total_return_pct,
                   unwrap(sorted_results)[k + 1].result.total_return_pct)
        /\ (/\ Len(parameter_combinations) = 8
            /\ Cardinality({i \in 1..8 : ~parameter_combinations[i].valid}) = 2
            /\ \A i \in 1..8 : DataOk(i))
               => Len(unwrap(sorted_results)) = 6

C17_Witness ==
    /\ is_some(sorted_results)
    /\ Len(parameter_combinations) = 8
    /\ Cardinality({i \in 1..8 : ~parameter_combinations[i].valid}) = 2
    /\ Len(unwrap(sorted_results)) = 6
    /\ FGt(unwrap(sorted_results)[1].result.total_return_pct,
           unwrap(sorted_results)[6].result.total_return_pct)

\* C18: whatever order the workers start and finish in, the returned list
\* is the same function of the parameter list and the data: the entries of
\* the successful parameter sets in list order, stably sorted by return, so
\* entries with equal returns keep their list order.
C18_SameOutputEveryInterleaving ==
    is_some(sorted_results) =>
        unwrap(sorted_results) = SortByReturn(ExpectedEntries(1))

C18_Witness ==
    /\ is_some(sorted_results)
    /\ \E k \in 1..(Len(unwrap(sorted_results)) - 1) :
          /\ unwrap(sorted_results)[k].result.total_return_pct =
                 unwrap(sorted_results)[k + 1].result.total_return_pct
          /\ unwrap(sorted_results)[k].label.strategy <
                 unwrap(sorted_results)[k + 1].label.strategy
          /\ \E a, b \in 1..Len(completion) :
                /\ a < b
                /\ completion[a] =
                       unwrap(sorted_results)[k + 1].label.strategy
                /\ completion[b] = unwrap(sorted_results)[k].label.strategy

\* C19: a worker runs a strategy instance of its own, fresh when its run
\* starts and called once per event by its own run only, and its result is
\* the result of a single run of a fresh strategy for its parameter set,
\* whatever the other parameter sets of the sweep are and do.
C19_WorkersIndependent ==
    \A i \in 1..Len(workers) :
        /\ workers[i].pc = "run" =>
               workers[i].strategy =
                   Some([script |-> parameter_combinations[i].script,
                         calls |-> 0])
        /\ is_some(workers[i].result) =>
               /\ workers[i].result =
                      Some(ReferenceResult(parameter_combinations[i]))
               /\ unwrap(workers[i].strategy).calls = Len(csv.records)
               /\ unwrap(workers[i].strategy).script =
                      parameter_combinations[i].script

C19_Witness ==
    \E i, j, k \in 1..Len(workers) :
        /\ is_some(workers[i].result) /\ is_some(workers[j].result)
        /\ Len(unwrap(workers[i].result).trades) = 1
        /\ workers[i].result # workers[j].result
        /\ workers[k].pc = "run"

\* C20: a run returns a result only when the whole data file was read, and
\* then the strategy has been called for every record; when the file
\* cannot be opened or a record fails, the run returns an error, no result
\* exists and the strategy was never called; the sweep's list then lacks
\* that parameter set and still has the runs that succeeded.
C20_CompleteOrError ==
    /\ \A i \in 1..Len(workers) :
           (workers[i].pc \in {"label", "done"}
                /\ parameter_combinations[i].valid) =>
               IF DataOk(i)
               THEN /\ is_some(workers[i].result)
                    /\ unwrap(workers[i].strategy).calls = Len(csv.records)
               ELSE /\ workers[i].result = None
                    /\ workers[i].entry = None
                    /\ unwrap(workers[i].strategy).calls = 0
    /\ is_some(sorted_results) =>
           \A i \in 1..Len(workers) :
               /\ ~DataOk(i) => EntriesOf(unwrap(sorted_results), i) = {}
               /\ Succeeds(i) => EntriesOf(unwrap(sorted_results), i) # {}

C20_Witness ==
    /\ is_some(sorted_results)
    /\ \E i, j \in 1..Len(workers) :
          /\ i \in open_fails /\ parameter_combinations[i].valid
          /\ workers[i].result = None
          /\ j \notin open_fails
          /\ EntriesOf(unwrap(sorted_results), j) # {}
\* ------------------------------------------------- claims on the metrics
\* The call of calculate_metrics has returned.
MetricsReturned ==
    is_some(call) /\ unwrap(call).fn = "calculate_metrics" /\ is_some(ret)

\* Gross profit and gross loss as the claims word them: the sum of the
\* positive pnl, and of the absolute values of the negative pnl.
RECURSIVE GrossOf(_, _)
GrossOf(trade_list, sign) ==
    IF trade_list = <<>> THEN R(0)
    ELSE LET t == trade_list[Len(trade_list)]
             rest == GrossOf(SubSeq(trade_list, 1, Len(trade_list) - 1), sign)
         IN IF sign > 0 /\ FGt(t.pnl, R(0)) THEN FAdd(rest, t.pnl)
            ELSE IF sign < 0 /\ FLt(t.pnl, R(0)) THEN FSub(rest, t.pnl)
            ELSE rest

\* C21: the profit factor is never infinite: it is the cap 1000 when gross
\* loss is 0 and gross profit is positive, 0 when both are 0, and
\* gross_profit / gross_loss otherwise.
C21_ProfitFactorFinite ==
    MetricsReturned =>
        LET gross_profit == GrossOf(unwrap(call).trades, 1)
            gross_loss == GrossOf(unwrap(call).trades, -1)
            profit_factor == unwrap(ret).profit_factor
        IN /\ is_finite(profit_factor)
           /\ (gross_loss = R(0) /\ FGt(gross_profit, R(0)))
                 => profit_factor = R(1000)
           /\ (gross_loss = R(0) /\ gross_profit = R(0))
                 => profit_factor = R(0)
           /\ gross_loss # R(0)
                 => profit_factor = FDiv(gross_profit, gross_loss)

\* The largest of a non-empty set of f64 values none of which is NaN.
FLargest(S) == CHOOSE x \in S : \A y \in S : FGe(x, y)

\* The running peak at point k: the largest of starting_equity and the
\* curve's points up to k.
PeakAt(start_eq, curve, k) ==
    FLargest({start_eq} \cup {curve[j] : j \in 1..k})

DrawdownAt(start_eq, curve, k) == FSub(PeakAt(start_eq, curve, k), curve[k])

DrawdownPctAt(start_eq, curve, k) ==
    FMul(FDiv(DrawdownAt(start_eq, curve, k), PeakAt(start_eq, curve, k)),
         R(100))

\* C22: max_drawdown >= 0; max_drawdown_pct <= 100 when every equity value,
\* starting equity included, is >= 0; both are the largest drawdown over the
\* points of the curve, each point measured against the running peak up to
\* it, the peak seeded with starting_equity.
C22_Drawdown ==
    MetricsReturned =>
        LET start_eq == unwrap(call).starting_equity
            curve == unwrap(call).equity_curve
            points == 1..Len(curve)
        IN /\ FGe(unwrap(ret).max_drawdown, R(0))
           /\ (FGe(start_eq, R(0)) /\ \A k \in points : FGe(curve[k], R(0)))
                 => FLe(unwrap(ret).max_drawdown_pct, R(100))
           /\ unwrap(ret).max_drawdown =
                 FLargest({R(0)} \cup
                          {DrawdownAt(start_eq, curve, k) : k \in points})
           /\ unwrap(ret).max_drawdown_pct =
                 FLargest({R(0)} \cup
                          {DrawdownPctAt(start_eq, curve, k) : k \in
                              {j \in points :
                                  ~is_nan(DrawdownPctAt(start_eq, curve, j))}})

\* A curve that falls, recovers to a new peak and falls again: the second
\* fall is the largest drawdown, measured against the new peak.
C22_Witness ==
    /\ MetricsReturned
    /\ unwrap(call).equity_curve = <<R(100), R(50), R(200), R(100)>>
    /\ unwrap(ret).max_drawdown = R(100)
    /\ unwrap(ret).max_drawdown_pct = R(50)

\* The number of trades of the call with pnl > 0.
Winners == Cardinality({k \in 1..Len(unwrap(call).trades) :
                            FGt(unwrap(call).trades[k].pnl, R(0))})

\* C23 as stated: win_rate is winning trades / total trades, and 0 when
\* there are no trades.
C23_WinRateIsFraction ==
    MetricsReturned =>
        unwrap(ret).win_rate =
            IF unwrap(call).trades = <<>> THEN R(0)
            ELSE Q(Winners, Len(unwrap(call).trades))

\* C23, amended: win_rate is the percentage 100 x winning trades / total
\* trades (the trades with pnl > 0 over all trades), and 0 when there are no
\* trades.
C23_WinRateIsPercentage ==
    MetricsReturned =>
        unwrap(ret).win_rate =
            IF unwrap(call).trades = <<>> THEN R(0)
            ELSE Q(100 * Winners, Len(unwrap(call).trades))

\* One winner among three trades, one of them with pnl 0.
C23_Witness ==
    /\ MetricsReturned
    /\ Len(unwrap(call).trades) = 3
    /\ Winners = 1
    /\ \E k \in 1..3 : unwrap(call).trades[k].pnl = R(0)
    /\ unwrap(ret).win_rate = Q(100, 3)


\* ---------------------------------------------- claims on the cost model
\* The call of fn has returned.
Returned_(fn) == is_some(call) /\ unwrap(call).fn = fn /\ is_some(ret)

\* A positive, finite order price.
PositivePrice(p) == is_finite(p) /\ FGt(p, R(0))

\* The price paid is not below, and the price received not above, the
\* order's price.
PaysAtLeast(fill_price, order) ==
    PositivePrice(order.price) => FGe(fill_price, order.price)
ReceivesAtMost(fill_price, order) ==
    PositivePrice(order.price) => FLe(fill_price, order.price)

\* C25: adjust_fill_price returns order_price + (slippage_amount + spread/2)
\* for a buy and order_price - (slippage_amount + spread/2) for a sell, so
\* that, the cost parameters being non-negative, every buy fills at a price
\* >= the order's price and every sell at a price <= it, for every slippage
\* and spread variant: whenever the engine opens or closes a position, and
\* whenever the function is called.
C25_BuysPayMoreSellsReceiveLess ==
    [][/\ (pc = "market" /\ is_some(pending_order) /\ position' # position)
            => IF position'.kind = "Long"
               THEN PaysAtLeast(position'.entry, unwrap(pending_order))
               ELSE ReceivesAtMost(position'.entry, unwrap(pending_order))
       /\ (pc = "limit" /\ idx <= Len(candles) /\ position' # position)
            => LET order == Head(FilledLimitOrders(pending_limit_orders,
                                                   candles[idx]))
               IN IF position'.kind = "Long"
                  THEN PaysAtLeast(position'.entry, order)
                  ELSE ReceivesAtMost(position'.entry, order)
       /\ (pc = "strategy" /\ Len(trades') > Len(trades))
            => LET t == trades'[Len(trades')]
               IN IF t.trade_type = "Long"
                  THEN ReceivesAtMost(t.exit_price, unwrap(last_order'))
                  ELSE PaysAtLeast(t.exit_price, unwrap(last_order'))
       /\ (pc = "call" /\ is_some(call) /\ is_some(ret')
              /\ unwrap(call).fn = "adjust_fill_price")
            => LET c == unwrap(call)
                   other == adjust_fill_price(c.costs, c.price, c.size,
                                              ~c.is_buy)
                   buy == IF c.is_buy THEN unwrap(ret') ELSE other
                   sell == IF c.is_buy THEN other ELSE unwrap(ret')
               IN /\ FGe(buy, c.price)
                  /\ FLe(sell, c.price)
                  /\ FSub(buy, c.price) = FSub(c.price, sell)]_vars

\* C26: with zero available volume or zero price, calculate_entry_cost,
\* calculate_exit_cost, adjust_fill_price and position sizing each return a
\* finite value.
C26_ZeroInputsGuarded ==
    (/\ is_some(call) /\ is_some(ret)
     /\ unwrap(call).fn \in {"calculate_entry_cost", "calculate_exit_cost",
                             "adjust_fill_price", "position_size"}
     /\ \/ unwrap(call).price = R(0)
        \/ /\ "volume" \in DOMAIN unwrap(call)
           /\ unwrap(call).volume = R(0))
    => is_finite(unwrap(ret))

\* The tiers whose threshold is >= the notional, by position in the list.
TiersReaching(tiers, notional) ==
    {j \in 1..Len(tiers) : FGe(tiers[j][1], notional)}

OptionsSpreadReturned ==
    /\ Returned_("calculate_spread")
    /\ unwrap(call).costs.spread.kind = "OptionsBidAsk"
    /\ FGt(unwrap(call).price, R(0))

\* The cap of the band at price: max_spread_pct percent of it.
SpreadCap(band, price) == FMul(FDiv(band.max_spread_pct, R(100)), price)

\* C28 as stated: the options spread at a price p > 0 is always >= min_spread
\* and always <= (max_spread_pct/100) x p.
C28_SpreadWithinFloorAndCap ==
    OptionsSpreadReturned =>
        /\ FGe(unwrap(ret), unwrap(call).costs.spread.min_spread)
        /\ FLe(unwrap(ret),
               SpreadCap(unwrap(call).costs.spread, unwrap(call).price))

\* C28, amended: the options spread at a price p > 0 is the percentage
\* spread floored at min_spread and then capped: it is always
\* <= (max_spread_pct/100) x p, and it is >= min_spread whenever min_spread
\* is itself <= that cap; where the cap is below min_spread the cap is
\* returned.
C28_SpreadCapWinsOverFloor ==
    OptionsSpreadReturned =>
        LET band == unwrap(call).costs.spread
            cap == SpreadCap(band, unwrap(call).price)
            pct == FMul(FDiv(band.spread_pct, R(100)), unwrap(call).price)
        IN /\ FLe(unwrap(ret), cap)
           /\ FLe(band.min_spread, cap) => FGe(unwrap(ret), band.min_spread)
           /\ FLt(cap, band.min_spread) => unwrap(ret) = cap
           /\ (FLe(band.min_spread, pct) /\ FLe(pct, cap)) => unwrap(ret) = pct

\* A cheap instrument: the cap is below the minimum spread and is returned.
C28_Witness ==
    /\ OptionsSpreadReturned
    /\ unwrap(call).price = R(2)
    /\ unwrap(call).costs.spread.min_spread = R(2)
    /\ unwrap(ret) = R(1)

\* ------------------------------------------------- claims on trade costs
\* x == y on f64: false when either side is NaN.
FEq(x, y) == ~is_nan(x) /\ ~is_nan(y) /\ x = y

\* commission + slippage + spread/2 for (price, size, volume).
ClaimedCost(costs, price, size, volume, is_entry) ==
    FAdd(FAdd(calculate_commission(costs, price, size, volume),
              calculate_slippage(costs, price, size, volume, is_entry)),
         FDiv(calculate_spread(costs, price), R(2)))

\* The gross PnL of a recorded trade: price difference x size x multiplier.
TradeGross(t) ==
    FMul(FMul(IF t.trade_type = "Long"
              THEN FSub(t.exit_price, t.entry_price)
              ELSE FSub(t.entry_price, t.exit_price), t.size),
         Multiplier(is_options_trading, futures_multiplier))

RECURSIVE CostTotal(_)
CostTotal(trade_list) ==
    IF trade_list = <<>> THEN R(0)
    ELSE FAdd(CostTotal(SubSeq(trade_list, 1, Len(trade_list) - 1)),
              trade_list[Len(trade_list)].transaction_costs)

\* C29: calculate_entry_cost and calculate_exit_cost each return commission
\* + slippage + spread/2 and agree on the same arguments; each recorded
\* trade's transaction_costs is its entry cost + its exit cost, so that pnl +
\* transaction_costs is the gross PnL; and total_transaction_costs is the sum
\* of transaction_costs over the recorded trades.
C29_TradeCosts ==
    /\ \A k \in 1..Len(trades) :
          LET t == trades[k]
              entry_cost == calculate_entry_cost(transaction_costs,
                                t.entry_price, t.size, avg_volume)
              exit_cost == calculate_exit_cost(transaction_costs,
                                t.exit_price, t.size, avg_volume)
          IN /\ entry_cost = ClaimedCost(transaction_costs, t.entry_price,
                                         t.size, avg_volume, TRUE)
             /\ exit_cost = ClaimedCost(transaction_costs, t.exit_price,
                                        t.size, avg_volume, FALSE)
             /\ calculate_exit_cost(transaction_costs, t.entry_price, t.size,
                                    avg_volume) = entry_cost
             /\ FEq(t.transaction_costs, FAdd(entry_cost, exit_cost))
             /\ FEq(FAdd(t.pnl, t.transaction_costs), TradeGross(t))
    /\ is_some(result) =>
          unwrap(result).total_transaction_costs =
              CostTotal(unwrap(result).trades)

\* The moving-average-cross constructor has been called on the parameters.
MovingAverageBuilt ==
    /\ pc = "call"
    /\ is_some(params)
    /\ unwrap(params).strategy = "MovingAverageCross"
    /\ is_some(instance)

WindowKeysPresent ==
    {"short_ma_period", "long_ma_period"} \subseteq DOMAIN unwrap(params).values

\* C24: constructing the moving-average-cross strategy succeeds exactly
\* when both window keys are present and the short window (the value of
\* short_ma_period as a count of periods) is below the long window; when a
\* key is absent or the short window is not below the long one there is an
\* error and no instance.
C24_ConstructionChecksWindows ==
    MovingAverageBuilt =>
        (unwrap(instance).ok <=>
             /\ WindowKeysPresent
             /\ AsUnsigned(unwrap(params).values.short_ma_period)
                    < AsUnsigned(unwrap(params).values.long_ma_period))

\* A strategy was built from windows 2 and 3 and has not been fed yet.
C24_Witness ==
    /\ MovingAverageBuilt
    /\ WindowKeysPresent
    /\ unwrap(params).values.short_ma_period = R(2)
    /\ unwrap(params).values.long_ma_period = R(3)
    /\ unwrap(instance).ok
    /\ unwrap(instance).value.short_ma_period = 2
    /\ unwrap(instance).value.long_ma_period = 3
    /\ emitted.before = <<>>
    /\ twin = None

\* The instance has been reset and a twin built from the same parameters.
AfterReset == pc = "call" /\ is_some(params) /\ is_some(twin)

\* C30: after reset an instance returns, event by event, the orders a
\* freshly constructed instance with the same parameters returns, whatever
\* it consumed before the reset.
C30_ResetBehavesLikeNew ==
    AfterReset => emitted.instance = emitted.twin

\* A moving-average-cross instance that returned an order before its reset
\* (and so held a position when it was reset) has returned an order after
\* it.
C30_Witness ==
    /\ AfterReset
    /\ unwrap(params).strategy = "MovingAverageCross"
    /\ Len(emitted.before) = MaxWarmup
    /\ is_some(emitted.before[MaxWarmup])
    /\ \E k \in 1..Len(emitted.instance) : is_some(emitted.instance[k])
    /\ emitted.instance = emitted.twin

\* C31: the pending slot holds at most one market order, and only from the
\* end of the event that queued it to the pending-order block of the next
\* event: a market order queued at event i is out of the slot (filled or
\* dropped) before the strategy is consulted for event i+1, so the slot is
\* empty whenever a new market order is queued. (After the last event
\* there is no next event: the order queued on it is still in the slot when the
\* run returns.)
C31_PendingOrderLivesOneStep ==
    /\ pending_order = None \/ Len(pending_order) = 1
    /\ is_some(pending_order) =>
          /\ pc \in {"limit", "market"} \/ (pc = "done" /\ idx > Len(candles))
          /\ IsMarket(unwrap(pending_order))
          /\ unwrap(pending_order).at = idx - 1
    /\ pc = "strategy" => pending_order = None

\* The strategy is about to be consulted for the event after the one on
\* which it queued a market order, which was dropped with a warning because
\* a limit order had opened a position first.
C31_Witness ==
    /\ pc = "strategy"
    /\ pending_order = None
    /\ is_some(last_order)
    /\ IsMarket(unwrap(last_order))
    /\ unwrap(last_order) \in submitted
    /\ unwrap(last_order).at = idx - 1
    /\ warnings >= 1

\* The pending limit orders that the step removes from the list.
RemovedLimitOrders ==
    {k \in 1..Len(pending_limit_orders) :
         \A j \in 1..Len(pending_limit_orders') :
             pending_limit_orders'[j] # pending_limit_orders[k]}

\* C32: a pending limit order leaves pending_limit_orders only by being
\* filled: a step that removes an order from the list opens a position from
\* that order; an order that becomes eligible while a position is open is
\* not removed.
C32_LimitOrderLeavesOnlyByFill ==
    [][\A k \in RemovedLimitOrders :
           /\ position.kind = "Neutral"
           /\ position'.kind =
                  (IF pending_limit_orders[k].order_type = "LimitBuy"
                   THEN "Long" ELSE "Short")
           /\ Len(fills') = Len(fills) + 1
           /\ fills'[Len(fills')].at = pending_limit_orders[k].at
           /\ fills'[Len(fills')].via = "limit"]_vars

\* C33: every value of the equity curve is finite (the starting equity
\* being finite), during the run and in the result returned, so the check
\* of the curve in run_parallel_backtest never discards a returned result.
C33_EquityCurveFinite ==
    /\ is_finite(starting_equity)
    /\ \A k \in 1..Len(equity_curve) : is_finite(equity_curve[k])
    /\ is_some(result) =>
          \A k \in 1..Len(unwrap(result).equity_curve) :
              is_finite(unwrap(result).equity_curve[k])

\* A result has been returned from a run in which the trade closed on
\* some event had a finite PnL that took the equity out of the finite
\* range, so that the curve repeats its previous value for that event.
C33_Witness ==
    /\ is_some(result)
    /\ \E j \in 2..Len(equity_curve) :
          /\ equity_curve[j] = equity_curve[j - 1]
          /\ \E k \in 1..Len(trades) :
                /\ trades[k].exit_date = j - 1
                /\ is_finite(trades[k].pnl)
                /\ ~is_finite(FAdd(equity_curve[j - 1], trades[k].pnl))

\* The recorded trades are in chronological order and do not overlap.
TradesInOrder ==
    /\ \A k \in 1..Len(trades) : trades[k].entry_date <= trades[k].exit_date
    /\ \A k \in 1..(Len(trades) - 1) :
          trades[k].exit_date < trades[k + 1].entry_date

\* C34: the events of a run are consumed once each in the order of the
\* series, which is never re-sorted (each step stays on the current event
\* or moves to the next one, and the strategy is consulted once per event);
\* each trade's entry event is not later than its exit event and the entry
\* event of trade k+1 is strictly later than the exit event of trade k.
C34_EventsInOrderTradesDisjoint ==
    /\ [](idx \in 1..(Len(candles) + 1) /\ TradesInOrder)
    /\ [][/\ candles' = candles
          /\ idx' \in {idx, idx + 1}
          /\ idx' = idx + 1 <=> pc = "strategy"
          /\ pc = "strategy" =>
                 last_order' = None \/ unwrap(last_order').at = idx]_vars

\* Two trades were recorded, the second entered after the first one's exit
\* (its order was emitted on the event after that exit and filled on the
\* next one).
C34_Witness ==
    /\ Len(trades) = 2
    /\ trades[1].entry_date <= trades[1].exit_date
    /\ trades[2].entry_date = trades[1].exit_date + 2
    /\ idx = Len(candles) + 1

\* C35: when the series ends with a position open the run does not close
\* it: the step that returns the result records no trade and changes
\* neither the ledger nor the equity; the result's trades are the recorded
\* round trips (one per exit), its ending_equity is the equity after the
\* last exit, which no entry and no open position has changed; the orders
\* still pending are left unfilled.
C35_OpenPositionLeftOpen ==
    /\ [](/\ equity = equity_curve[Len(equity_curve)]
          /\ Len(trades) = Cardinality(FillsVia("exit"))
          /\ is_some(result) =>
                /\ unwrap(result).trades = trades
                /\ unwrap(result).total_trades = Len(trades)
                /\ unwrap(result).ending_equity = equity)
    /\ [][/\ equity' # equity => Len(trades') = Len(trades) + 1
          /\ pc' = "done" =>
                /\ trades' = trades
                /\ position' = position
                /\ fills' = fills
                /\ pending_order' = pending_order
                /\ pending_limit_orders' = pending_limit_orders]_vars

\* A result was returned after two entries and one exit: one trade is
\* recorded and counted, and the second position is still open.
C35_Witness ==
    /\ is_some(result)
    /\ position.kind # "Neutral"
    /\ Len(fills) = 3
    /\ Len(trades) = 1
    /\ unwrap(result).total_trades = 1
    /\ unwrap(result).ending_equity = FAdd(starting_equity, trades[1].pnl)

\* The slippage_amount adjust_fill_price adds to the price of a buy: the
\* adjustment it makes with the spread taken out of the cost model.
AppliedSlippage(costs, price, size) ==
    FSub(adjust_fill_price([costs EXCEPT !.spread = SpreadFixed(R(0))],
                           price, size, TRUE),
         price)

\* C36: with Linear slippage the cost charged and the price adjustment use
\* the same participation rate min(size / available volume, 1): for the
\* same trade, the slippage calculate_slippage charges is the
\* slippage_amount adjust_fill_price applies per unit, times the size.
C36_LinearSlippageAgrees ==
    (/\ Returned_("calculate_entry_cost")
     /\ unwrap(call).costs.slippage.kind = "Linear"
     /\ FGt(unwrap(call).volume, R(0)))
    => LET c == unwrap(call)
       IN FEq(calculate_slippage(c.costs, c.price, c.size, c.volume, TRUE),
              FMul(AppliedSlippage(c.costs, c.price, c.size), c.size))

Losers == Cardinality({k \in 1..Len(unwrap(call).trades) :
                           FLt(unwrap(call).trades[k].pnl, R(0))})

\* C38: in the result of calculate_metrics, total_trades is the length of
\* the trade list; winning_trades and losing_trades count the trades with
\* pnl > 0 and pnl < 0, so their sum is at most total_trades and a trade
\* with pnl = 0 is in neither; largest_win >= 0 >= largest_loss; avg_win is
\* gross profit / winning_trades and avg_loss is gross loss / losing_trades,
\* each 0 when the count is 0; total_return_pct is 0 when starting_equity
\* is 0.
C38_TradeCounts ==
    MetricsReturned =>
        LET c == unwrap(call)
            r == unwrap(ret)
        IN /\ r.trades = c.trades
           /\ r.total_trades = Len(c.trades)
           /\ r.winning_trades = Winners
           /\ r.losing_trades = Losers
           /\ r.winning_trades + r.losing_trades <= r.total_trades
           /\ FGe(r.largest_win, R(0)) /\ FLe(r.largest_loss, R(0))
           /\ r.avg_win = (IF Winners = 0 THEN R(0)
                           ELSE FDiv(GrossOf(c.trades, 1), R(Winners)))
           /\ r.avg_loss = (IF Losers = 0 THEN R(0)
                            ELSE FDiv(GrossOf(c.trades, -1), R(Losers)))
           /\ c.starting_equity = R(0) => r.total_return_pct = R(0)

\* Metrics were computed for a winner, a loser and a trade with pnl 0,
\* from a starting equity of 0.
C38_Witness ==
    /\ MetricsReturned
    /\ Len(unwrap(call).trades) = 3
    /\ Winners = 1
    /\ Losers = 1
    /\ unwrap(ret).winning_trades + unwrap(ret).losing_trades = 2
    /\ unwrap(call).starting_equity = R(0)
    /\ unwrap(call).ending_equity # R(0)
\* C40: should_fill_limit_order reads the event's high and low, each falling
\* back to the event's price and then to the order's own limit price; a
\* LimitBuy is eligible when that low <= its price, a LimitSell when that
\* high >= its price, and no other order type is eligible. So on an event
\* with no high, no low and no price every LimitBuy and LimitSell whose price
\* is a number is eligible, and on an event with a price and no range the
\* order is compared with that price.
FieldOr(candle, key, order) ==
    IF key \in DOMAIN candle.fields THEN candle.fields[key]
    ELSE IF "price" \in DOMAIN candle.fields THEN candle.fields["price"]
    ELSE order.price

C40_LimitFallsBackToOwnPrice ==
    Returned_("should_fill_limit_order") =>
        LET order == unwrap(call).order
            candle == unwrap(call).candle
            keys == DOMAIN candle.fields
        IN /\ unwrap(ret) \in BOOLEAN
           /\ order.order_type = "LimitBuy" =>
                  (unwrap(ret) <=> FLe(FieldOr(candle, "low", order), order.price))
           /\ order.order_type = "LimitSell" =>
                  (unwrap(ret) <=> FGe(FieldOr(candle, "high", order), order.price))
           /\ ~IsLimit(order) => ~unwrap(ret)
           /\ (IsLimit(order) /\ keys \cap {"high", "low", "price"} = {}
                  /\ order.price # NaN) => unwrap(ret)

\* C40 as first stated: on an event with no high, no low and no price every
\* LimitBuy and LimitSell is eligible, whatever its price. An order whose
\* price is NaN is compared with itself and is not eligible.
C40_EveryLimitOrderEligible ==
    Returned_("should_fill_limit_order") =>
        LET order == unwrap(call).order
            keys == DOMAIN unwrap(call).candle.fields
        IN /\ ~IsLimit(order) => ~unwrap(ret)
           /\ (IsLimit(order) /\ keys \cap {"high", "low", "price"} = {})
                 => unwrap(ret)

C40_Witness ==
    /\ Returned_("should_fill_limit_order")
    /\ unwrap(call).order = MkOrder("LimitSell", R(5))
    /\ DOMAIN unwrap(call).candle.fields = {"bid_price", "ask_price"}
    /\ unwrap(ret) = TRUE

\* C37: for a dataset that was read, the buy-and-hold benchmark returns an
\* error when the dataset is empty, when the schema carries no price data or
\* when an event lacks the price field; otherwise it returns a result with
\* exactly one trade (Benchmark, EndOfPeriod, zero transaction costs) whose
\* equity curve starts at starting_equity, has one value per event, and
\* whose last value is ending_equity: starting_equity for a single event, and
\* otherwise starting_equity + (last_price - first_price)
\* x (starting_equity x exposure / first_price) x multiplier.
BenchmarkReturned == Returned_("calculate_benchmark_with_schema")

BenchmarkFails(c) ==
    IF c.schema \in NoPriceSchemas \/ Len(c.csv.value) = 0 THEN TRUE
    ELSE \E k \in 1..Len(c.csv.value) :
             BenchmarkKey(c.schema, c.custom_schema)
                 \notin DOMAIN c.csv.value[k].fields

BuyAndHoldEquity(c) ==
    LET key == BenchmarkKey(c.schema, c.custom_schema)
        first_price == c.csv.value[1].fields[key]
        last_price == c.csv.value[Len(c.csv.value)].fields[key]
    IN FAdd(c.starting_equity,
            FMul(FMul(FSub(last_price, first_price),
                      FDiv(FMul(c.starting_equity, c.exposure), first_price)),
                 unwrap_or(FuturesMultiplierOf(c.symbol), R(1))))

BenchmarkShape(c, r) ==
    /\ r.ok
    /\ Len(r.value.trades) = 1
    /\ r.value.total_trades = 1
    /\ r.value.trades[1].trade_type = "Benchmark"
    /\ r.value.trades[1].exit_reason = "EndOfPeriod"
    /\ r.value.trades[1].transaction_costs = R(0)
    /\ r.value.starting_equity = c.starting_equity
    /\ r.value.equity_curve[1] = c.starting_equity
    /\ Len(r.value.equity_curve) = Len(c.csv.value)
    /\ r.value.equity_curve[Len(r.value.equity_curve)]
           = r.value.ending_equity

C37_BenchmarkResult ==
    BenchmarkReturned =>
        LET c == unwrap(call)
            r == unwrap(ret)
        IN IF ~c.csv.ok \/ BenchmarkFails(c) THEN r = Err
           ELSE /\ BenchmarkShape(c, r)
                /\ r.value.ending_equity =
                       (IF Len(c.csv.value) = 1 THEN c.starting_equity
                        ELSE BuyAndHoldEquity(c))

\* C37 as first stated: ending_equity is given by the formula for every
\* dataset. A single event whose price is 0 has a position size that is not
\* finite, the formula is NaN, and ending_equity is starting_equity.
C37_FormulaForEveryDataset ==
    (BenchmarkReturned /\ unwrap(call).csv.ok
       /\ ~BenchmarkFails(unwrap(call))) =>
        /\ BenchmarkShape(unwrap(call), unwrap(ret))
        /\ unwrap(ret).value.ending_equity = BuyAndHoldEquity(unwrap(call))

C37_Witness ==
    /\ BenchmarkReturned
    /\ unwrap(ret).ok
    /\ Len(unwrap(call).csv.value) = 3
    /\ unwrap(call).symbol.root = "ES"
    /\ unwrap(call).schema = "Trades"
    /\ unwrap(call).custom_schema = Some("FootPrint")
    /\ Len(unwrap(ret).value.equity_curve) = 3
    /\ unwrap(ret).value.ending_equity = R(725)
    /\ unwrap(ret).value.trades[1].pnl = R(625)

\* C39: with FootprintVolumeImbalance driven by the event loop, after every
\* event the strategy's current_position is Some(MarketBuy) only when the
\* ledger is Long or a MarketBuy is pending, Some(MarketSell) only when the
\* ledger is Short or a MarketSell is pending, and None only when the ledger
\* is Neutral with nothing pending; and the strategy never goes from
\* believing it holds one side to believing it holds the other in one call.
BelievedPosition == unwrap(instance).current_position

PendingEntry(order_type) ==
    is_some(pending_order) /\ unwrap(pending_order).order_type = order_type

StrategyMatchesLedger ==
    /\ BelievedPosition = Some("MarketBuy") =>
           position.kind = "Long" \/ PendingEntry("MarketBuy")
    /\ BelievedPosition = Some("MarketSell") =>
           position.kind = "Short" \/ PendingEntry("MarketSell")
    /\ BelievedPosition = None =>
           position.kind = "Neutral" /\ pending_order = None

C39_StrategyPositionMatchesLedger ==
    /\ []((pc = "limit" /\ idx > 1) => StrategyMatchesLedger)
    /\ [][is_some(BelievedPosition) =>
             unwrap(instance').current_position \in {BelievedPosition, None}]_vars

====
